---- MODULE Spec2Model ----
(***************************************************************************)
(* Fixed-income analytics core of the lecture tools: bond pricing, yield   *)
(* measures, Macaulay / modified duration, convexity, the price-change     *)
(* estimators and the immunization maturity search, as implemented in      *)
(* lec01_bonds_price.py and lec02_bond_management.py.                      *)
(*                                                                         *)
(* Numbers.  The source computes in IEEE doubles.  The model computes in   *)
(* exact arithmetic over  a0 + a1*e + a2*e^2,  with rational a0, a1, a2    *)
(* and e standing for the source's threshold 1e-12, treated as a positive  *)
(* quantity smaller than every positive rational ("regular") number.  A    *)
(* value is the tuple <<kind, a0, a1, a2>>; kind "num" is a number, the    *)
(* other kinds are NaN and the exceptions Python raises.  Products drop    *)
(* the terms beyond e^2 (below 1e-36): a2 is a guard term that keeps a1    *)
(* right when a quotient divides by a multiple of e.  Rounding errors of   *)
(* the doubles themselves are not modelled.                                *)
(***************************************************************************)
EXTENDS Integers, Sequences, FiniteSets, TLC

VARIABLES page, calc, imm, call, conv, session, quiz

vars == <<page, calc, imm, call, conv, session, quiz>>

(***************************************************************************)
(* Natural numbers of any size: a tuple of limbs, least significant first, *)
(* without leading zero limbs (<<>> is 0).                                 *)
(***************************************************************************)
Base == 100 * 100

Limb(a, i) == IF i <= Len(a) THEN a[i] ELSE 0

RECURSIVE MStrip(_)
MStrip(a) == IF a = <<>> THEN a
             ELSE IF a[Len(a)] = 0 THEN MStrip(SubSeq(a, 1, Len(a) - 1)) ELSE a

MFromInt(k) == IF k = 0 THEN <<>>
               ELSE IF k < Base THEN <<k>>
               ELSE IF k < Base * Base THEN <<k % Base, k \div Base>>
               ELSE <<k % Base, (k \div Base) % Base, k \div (Base * Base)>>

RECURSIVE MAddR(_, _, _, _)
MAddR(a, b, i, c) ==
    IF i > Len(a) /\ i > Len(b)
    THEN (IF c = 0 THEN <<>> ELSE <<c>>)
    ELSE LET s == Limb(a, i) + Limb(b, i) + c
         IN  <<s % Base>> \o MAddR(a, b, i + 1, s \div Base)
MAdd(a, b) == IF a = <<>> THEN b ELSE IF b = <<>> THEN a ELSE MAddR(a, b, 1, 0)

\* a - b for a >= b
RECURSIVE MSubR(_, _, _, _)
MSubR(a, b, i, c) ==
    IF i > Len(a) THEN <<>>
    ELSE LET s == a[i] - Limb(b, i) - c
         IN  IF s < 0 THEN <<s + Base>> \o MSubR(a, b, i + 1, 1)
                      ELSE <<s>> \o MSubR(a, b, i + 1, 0)
MSub(a, b) == IF b = <<>> THEN a ELSE MStrip(MSubR(a, b, 1, 0))

RECURSIVE MCmpR(_, _, _)
MCmpR(a, b, i) == IF i = 0 THEN 0
                  ELSE IF a[i] < b[i] THEN -1
                  ELSE IF a[i] > b[i] THEN 1
                  ELSE MCmpR(a, b, i - 1)
MCmp(a, b) == IF Len(a) < Len(b) THEN -1
              ELSE IF Len(a) > Len(b) THEN 1
              ELSE MCmpR(a, b, Len(a))

RECURSIVE MMulSmallR(_, _, _, _)
MMulSmallR(a, k, i, c) ==
    IF i > Len(a) THEN (IF c = 0 THEN <<>> ELSE <<c>>)
    ELSE LET s == a[i] * k + c
         IN  <<s % Base>> \o MMulSmallR(a, k, i + 1, s \div Base)
MMulSmall(a, k) == IF k = 0 \/ a = <<>> THEN <<>>
                   ELSE IF k = 1 THEN a ELSE MMulSmallR(a, k, 1, 0)

\* a * b, from the most significant limb of b down
RECURSIVE MMulR(_, _, _, _)
MMulR(a, b, j, acc) ==
    IF j = 0 THEN acc
    ELSE IF acc = <<>> THEN MMulR(a, b, j - 1, MMulSmall(a, b[j]))
    ELSE MMulR(a, b, j - 1, MAdd(MMulSmall(a, b[j]), <<0>> \o acc))
MMul(a, b) == IF a = <<>> \/ b = <<>> THEN <<>>
              ELSE IF Len(b) = 1 THEN MMulSmall(a, b[1])
              ELSE IF Len(a) = 1 THEN MMulSmall(b, a[1])
              ELSE MMulR(a, b, Len(b), <<>>)

\* a^t for t >= 1, by squaring
MSquare(a) == MMul(a, a)
RECURSIVE MPow(_, _)
MPow(a, t) == IF t = 1 THEN a
              ELSE IF t % 2 = 0 THEN MSquare(MPow(a, t \div 2))
              ELSE MMul(MSquare(MPow(a, t \div 2)), a)

\* the remainder of a by a one-limb k > 0, from limb i down, r carried in
RECURSIVE MModSmallR(_, _, _, _)
MModSmallR(a, k, i, r) ==
    IF i = 0 THEN r
    ELSE IF r = 0 THEN MModSmallR(a, k, i - 1, a[i] % k)
    ELSE MModSmallR(a, k, i - 1, (r * Base + a[i]) % k)
MModSmall(a, k) == MModSmallR(a, k, Len(a), 0)

\* the quotient of a by a one-limb k > 0: limb i of it is the remainder of
\* the limbs above i, with limb i, divided by k
MDivSmall(a, k) ==
    MStrip(<<>> \o [i \in 1..Len(a) |->
               (MModSmall(SubSeq(a, i + 1, Len(a)), k) * Base + a[i]) \div k])

IsSmall(a) == Len(a) <= 2
MToInt(a) == IF a = <<>> THEN 0 ELSE IF Len(a) = 1 THEN a[1] ELSE a[1] + Base * a[2]

RECURSIVE Gcd(_, _)
Gcd(m, n) == IF n = 0 THEN m ELSE Gcd(n, m % n)

\* the primes a fraction is reduced by (the prime factors of 1 + r and of
\* its denominator for the rates of the inputs), and a power of each
SmallPrimes == <<2, 3, 5, 7, 11, 13, 19, 23, 59, 67, 101, 107, 109, 113, 197, 199>>
PrimePowers == <<8192, 6561, 3125, 2401, 1331, 2197, 6859, 529, 3481, 4489, 101,
                 107, 109, 113, 197, 199>>

\* n and d divided by k as long as k divides both
RECURSIVE MStripFactor(_, _, _)
MStripFactor(n, d, k) ==
    IF MModSmall(d, k) # 0 \/ MModSmall(n, k) # 0 THEN <<n, d>>
    ELSE MStripFactor(MDivSmall(n, k), MDivSmall(d, k), k)
MStripPair(nd, k) == MStripFactor(nd[1], nd[2], k)

RECURSIVE MReduce(_, _, _)
MReducePair(nd, i) == MReduce(nd[1], nd[2], i)
MReduce(n, d, i) ==
    IF i > Len(SmallPrimes) \/ d = <<1>> THEN <<n, d>>
    ELSE IF MModSmall(d, SmallPrimes[i]) # 0 \/ MModSmall(n, SmallPrimes[i]) # 0
    THEN MReduce(n, d, i + 1)
    ELSE MReducePair(MStripPair(MStripFactor(n, d, PrimePowers[i]), SmallPrimes[i]),
                     i + 1)

(***************************************************************************)
(* Apply(op, x) is op applied to the arguments x.  The operations on       *)
(* rationals and on Python values, and the run of each page, are applied   *)
(* through this one recursive operator (defined below, after the pages),   *)
(* which keeps the expansion of the definitions that the model checker     *)
(* builds for its statistics linear in their size.                         *)
(***************************************************************************)
RECURSIVE Apply(_, _)

(***************************************************************************)
(* Rationals <<sign, numerator, denominator>>                              *)
(***************************************************************************)
QZero == <<0, <<>>, <<1>>>>
\* s * n / d of integers n, d > 0 with the common divisor g, in lowest terms
QOver(s, n, d, g) == <<s, MFromInt(n \div g), MFromInt(d \div g)>>
QLowest(s, n, d) == QOver(s, n, d, Gcd(n, d))
QSigned(s, nd) == <<s, nd[1], nd[2]>>
QNorm(s, n, d) == Apply("QNorm", <<s, n, d>>)
QNorm_impl(s, n, d) ==
    IF n = <<>> \/ s = 0 THEN QZero
    ELSE IF d = <<1>> THEN <<s, n, d>>
    ELSE IF IsSmall(n) /\ IsSmall(d) THEN QLowest(s, MToInt(n), MToInt(d))
    ELSE QSigned(s, MReduce(n, d, 1))

Abs(n) == IF n < 0 THEN -n ELSE n
Q(n, d) == IF n = 0 THEN QZero
           ELSE QLowest(IF (n < 0) = (d < 0) THEN 1 ELSE -1, Abs(n), Abs(d))
QInt(n) == IF n = 0 THEN QZero
           ELSE <<IF n < 0 THEN -1 ELSE 1, MFromInt(IF n < 0 THEN -n ELSE n), <<1>>>>
QNeg(a) == <<-a[1], a[2], a[3]>>
QMul(a, b) == Apply("QMul", <<a, b>>)
QMul_impl(a, b) ==
    IF a[1] = 0 \/ b[1] = 0 THEN QZero
    ELSE QNorm(a[1] * b[1], MMul(a[2], b[2]), MMul(a[3], b[3]))
QInv(a) == <<a[1], a[3], a[2]>>
QDiv(a, b) == QMul(a, QInv(b))
\* signed sum of two numerators over the common denominator d
QDifference(s1, n1, s2, n2, d, c) ==
    IF c = 0 THEN QZero
    ELSE IF c > 0 THEN QNorm(s1, MSub(n1, n2), d)
    ELSE QNorm(s2, MSub(n2, n1), d)
QSum(s1, n1, s2, n2, d) ==
    IF s1 = s2 THEN QNorm(s1, MAdd(n1, n2), d)
    ELSE QDifference(s1, n1, s2, n2, d, MCmp(n1, n2))
QAdd(a, b) == Apply("QAdd", <<a, b>>)
QAdd_impl(a, b) ==
    IF a[1] = 0 THEN b
    ELSE IF b[1] = 0 THEN a
    ELSE IF a[3] = b[3] THEN QSum(a[1], a[2], b[1], b[2], a[3])
    ELSE QSum(a[1], MMul(a[2], b[3]), b[1], MMul(b[2], a[3]), MMul(a[3], b[3]))
QSub(a, b) == QAdd(a, QNeg(b))
\* -1, 0, 1 as a < b, a = b, a > b
QCmp(a, b) == Apply("QCmp", <<a, b>>)
QCmp_impl(a, b) ==
    IF a[1] # b[1] THEN (IF a[1] < b[1] THEN -1 ELSE 1)
    ELSE IF a[1] = 0 THEN 0
    ELSE IF a[3] = b[3] THEN a[1] * MCmp(a[2], b[2])
    ELSE a[1] * MCmp(MMul(a[2], b[3]), MMul(b[2], a[3]))

\* a^t for t >= 0: a reduced fraction stays reduced
QPow(a, t) == Apply("QPow", <<a, t>>)
QPow_impl(a, t) ==
    IF t = 0 THEN QInt(1)
    ELSE IF a[1] = 0 THEN QZero
    ELSE <<IF a[1] < 0 /\ t % 2 = 1 THEN -1 ELSE 1, MPow(a[2], t), MPow(a[3], t)>>

\* floor of a rational whose numerator and denominator fit two limbs
QFloor(a) == LET n == a[1] * MToInt(a[2]) IN n \div MToInt(a[3])

(***************************************************************************)
(* a0 + a1*e + a2*e^2 as <<a0, a1, a2>>, ordered lexicographically         *)
(***************************************************************************)
PZero == <<QZero, QZero, QZero>>
PReg(q) == <<q, QZero, QZero>>
PIsReg(a) == a[2][1] = 0 /\ a[3][1] = 0
PIsZero(a) == a[1][1] = 0 /\ a[2][1] = 0 /\ a[3][1] = 0
PNeg(a) == <<QNeg(a[1]), QNeg(a[2]), QNeg(a[3])>>
PAdd(a, b) == IF PIsReg(a) /\ PIsReg(b) THEN PReg(QAdd(a[1], b[1]))
              ELSE <<QAdd(a[1], b[1]), QAdd(a[2], b[2]), QAdd(a[3], b[3])>>
PMul(a, b) ==
    IF PIsReg(a) /\ PIsReg(b) THEN PReg(QMul(a[1], b[1]))
    ELSE <<QMul(a[1], b[1]),
           QAdd(QMul(a[1], b[2]), QMul(a[2], b[1])),
           QAdd(QMul(a[1], b[3]), QAdd(QMul(a[2], b[2]), QMul(a[3], b[1])))>>
\* 1/a for a0 # 0
PInvSeries(i0, u1, u2) == PMul(PReg(i0), <<QInt(1), QNeg(u1), QSub(QMul(u1, u1), u2)>>)
PInvBy(a, i0) == PInvSeries(i0, QMul(a[2], i0), QMul(a[3], i0))
PInv(a) == IF PIsReg(a) THEN PReg(QInv(a[1])) ELSE PInvBy(a, QInv(a[1]))
PSign(a) == IF a[1][1] # 0 THEN a[1][1]
            ELSE IF a[2][1] # 0 THEN a[2][1] ELSE a[3][1]
PCmp3(c1, c2, c3) == IF c1 # 0 THEN c1 ELSE IF c2 # 0 THEN c2 ELSE c3
PCmp(a, b) == PCmp3(QCmp(a[1], b[1]), QCmp(a[2], b[2]), QCmp(a[3], b[3]))
PAbs(a) == IF PSign(a) < 0 THEN PNeg(a) ELSE a
\* the order of the leading term: 0, 1, 2, or 3 for zero
POrder(a) == IF a[1][1] # 0 THEN 0 ELSE IF a[2][1] # 0 THEN 1
             ELSE IF a[3][1] # 0 THEN 2 ELSE 3
PSquare(a) == PMul(a, a)
RECURSIVE PPow(_, _)
PPow(a, t) == IF t = 0 THEN PReg(QInt(1))
              ELSE IF t = 1 THEN a
              ELSE IF PIsReg(a) THEN PReg(QPow(a[1], t))
              ELSE IF t % 2 = 0 THEN PSquare(PPow(a, t \div 2))
              ELSE PMul(PSquare(PPow(a, t \div 2)), a)

(***************************************************************************)
(* Python values: a float, NaN, or a raised exception.  An operation on a  *)
(* raised operand stays raised (the exception propagates out of the        *)
(* expression); an operation on NaN is NaN.  "unrepresentable" marks a     *)
(* value the model has no exact form for (a quotient of order 1/e, a       *)
(* power that is not rational); it spreads like a raised value, and no     *)
(* property below is stated of a run that meets one.                       *)
(***************************************************************************)
Num(p) == <<"num", p[1], p[2], p[3]>>
NaN == <<"nan", QZero, QZero, QZero>>
ZeroDivisionError == <<"ZeroDivisionError", QZero, QZero, QZero>>
ValueError == <<"ValueError", QZero, QZero, QZero>>
Unrepresentable == <<"unrepresentable", QZero, QZero, QZero>>
NoValue == <<"none", QZero, QZero, QZero>>
\* np.inf, which the program returns and tests for but never computes with
Inf == <<"inf", QZero, QZero, QZero>>

P(v) == <<v[2], v[3], v[4]>>
IsNum(v) == v[1] = "num"
IsNaN(v) == v[1] = "nan"
IsInf(v) == v[1] = "inf"
IsRaised(v) == v[1] \in {"ZeroDivisionError", "ValueError", "unrepresentable"}

\* n/d, and (n/d) * 1e-12
R(n, d) == Num(PReg(Q(n, d)))
Tiny(n, d) == Num(<<QZero, Q(n, d), QZero>>)
FInt(n) == Num(PReg(QInt(n)))

Lift2(a, b, r) == IF IsRaised(a) THEN a
                  ELSE IF IsRaised(b) THEN b
                  ELSE IF IsNaN(a) \/ IsNaN(b) THEN NaN
                  ELSE r
FAdd(a, b) == Apply("FAdd", <<a, b>>)
FAdd_impl(a, b) == Lift2(a, b, Num(PAdd(P(a), P(b))))
FNeg(a) == IF IsNum(a) THEN Num(PNeg(P(a))) ELSE a
FSub(a, b) == Apply("FSub", <<a, b>>)
FSub_impl(a, b) == Lift2(a, b, Num(PAdd(P(a), PNeg(P(b)))))
FMul(a, b) == Apply("FMul", <<a, b>>)
FMul_impl(a, b) == Lift2(a, b, Num(PMul(P(a), P(b))))
FAbs(a) == IF IsNum(a) THEN Num(PAbs(P(a))) ELSE a

\* a / b of two numbers, b # 0
PTruncate(q) == <<q[1], q[2], QZero>>
PDivOrder(a, b, k) ==
    IF k = 0 THEN Num(PMul(a, PInv(b)))
    ELSE IF POrder(a) < k THEN Unrepresentable
    ELSE IF k = 1
    THEN Num(PTruncate(PMul(<<a[2], a[3], QZero>>, PInv(<<b[2], b[3], QZero>>))))
    ELSE Num(PReg(QDiv(a[3], b[3])))
PDiv(a, b) == PDivOrder(a, b, POrder(b))
\* Python's a / b on floats: division by zero raises
FDiv(a, b) == Apply("FDiv", <<a, b>>)
FDiv_impl(a, b) ==
    IF IsRaised(a) THEN a
    ELSE IF IsRaised(b) THEN b
    ELSE IF IsNum(b) /\ PIsZero(P(b)) THEN ZeroDivisionError
    ELSE IF IsNaN(a) \/ IsNaN(b) THEN NaN
    ELSE PDiv(P(a), P(b))
\* Python's a ** t for an integer t: 0.0 ** negative raises
FPow(a, t) == Apply("FPow", <<a, t>>)
FPow_impl(a, t) ==
    IF ~IsNum(a) THEN a
    ELSE IF t >= 0 THEN Num(PPow(P(a), t))
    ELSE IF PIsZero(P(a)) THEN ZeroDivisionError
    ELSE PDiv(PReg(QInt(1)), PPow(P(a), -t))

\* comparisons of floats: every comparison with NaN is false
FLt(a, b) == IsNum(a) /\ IsNum(b) /\ PCmp(P(a), P(b)) < 0
FLe(a, b) == IsNum(a) /\ IsNum(b) /\ PCmp(P(a), P(b)) <= 0
FEq(a, b) == IsNum(a) /\ IsNum(b) /\ PCmp(P(a), P(b)) = 0
FIsZero(a) == IsNum(a) /\ PIsZero(P(a))

\* Python's int(round(x)): round half to even, for a regular x
PyRound(x) == Apply("PyRound", <<x>>)
\* fl, the floor, rounded by c: the fraction compared with one half
RoundHalfEven(fl, c) ==
    IF c < 0 THEN fl
    ELSE IF c > 0 THEN fl + 1
    ELSE IF fl % 2 = 0 THEN fl ELSE fl + 1
QTwice(a) == QAdd(a, a)
QRound(q, fl) == RoundHalfEven(fl, QCmp(QTwice(QSub(q, QInt(fl))), QInt(1)))
PyRound_impl(x) == QRound(x[2], QFloor(x[2]))
Max(a, b) == IF a >= b THEN a ELSE b

\* the near-zero-rate threshold of the source, 1e-12
EPS == Tiny(1, 1)
One == FInt(1)
FZero == FInt(0)

(***************************************************************************)
(* The functions of the two modules, by module: a call of f in module mod  *)
(* is f(mod, ...).                                                         *)
(***************************************************************************)
Modules == {"lec01", "lec02"}

calculate_bond_price(mod, face_value, coupon_rate, years, ytm, frequency) ==
    Apply("calculate_bond_price", <<mod, face_value, coupon_rate, years, ytm, frequency>>)

\* weighted_pv and total_pv at the end of the loop of calculate_duration
duration_sums(mod, face_value, coupon_rate, years, ytm, frequency) ==
    Apply("duration_sums", <<mod, face_value, coupon_rate, years, ytm, frequency>>)

calculate_duration(mod, face_value, coupon_rate, years, ytm, frequency) ==
    Apply("calculate_duration", <<mod, face_value, coupon_rate, years, ytm, frequency>>)

calculate_modified_duration(mod, macaulay_duration, ytm, frequency) ==
    Apply("calculate_modified_duration", <<mod, macaulay_duration, ytm, frequency>>)

calculate_convexity(mod, face_value, coupon_rate, years, ytm, frequency) ==
    Apply("calculate_convexity", <<mod, face_value, coupon_rate, years, ytm, frequency>>)

price_change_duration(mod, modified_duration, delta_yield) ==
    Apply("price_change_duration", <<mod, modified_duration, delta_yield>>)

price_change_duration_convexity(mod, modified_duration, convexity, delta_yield) ==
    Apply("price_change_duration_convexity",
          <<mod, modified_duration, convexity, delta_yield>>)

(***************************************************************************)
(* lec01_bonds_price.py: helper functions                                  *)
(***************************************************************************)
lec01_periods(years, frequency) ==
    Max(PyRound(FMul(years, FInt(frequency))), 1)

\* calculate_bond_price without discounting: the cash flows added up
lec01_calculate_bond_price_undiscounted(face_value, coupon_rate, years_to_maturity, ytm, frequency) ==
    IF FLe(years_to_maturity, FZero) THEN face_value
    ELSE LET n_periods == lec01_periods(years_to_maturity, frequency)
             coupon_payment == FDiv(FMul(face_value, coupon_rate), FInt(frequency))
         IN  FAdd(FMul(coupon_payment, FInt(n_periods)), face_value)

\* calculate_bond_price with the face value left undiscounted at a periodic
\* rate within 1e-12 of zero
lec01_calculate_bond_price_face_undiscounted(face_value, coupon_rate, years_to_maturity, ytm, frequency) ==
    IF FLe(years_to_maturity, FZero) THEN face_value
    ELSE LET n_periods == lec01_periods(years_to_maturity, frequency)
             coupon_payment == FDiv(FMul(face_value, coupon_rate), FInt(frequency))
             discount_rate == FDiv(ytm, FInt(frequency))
             small == FLt(FAbs(discount_rate), EPS)
             pv_coupons ==
                 IF small
                 THEN FMul(coupon_payment, FInt(n_periods))
                 ELSE FDiv(FMul(coupon_payment,
                                FSub(One, FPow(FAdd(One, discount_rate), -n_periods))),
                           discount_rate)
             pv_face == IF small THEN face_value
                        ELSE FDiv(face_value, FPow(FAdd(One, discount_rate), n_periods))
         IN  FAdd(pv_coupons, pv_face)

\* calculate_bond_price without the branch for a periodic rate near zero
lec01_calculate_bond_price_annuity_only(face_value, coupon_rate, years_to_maturity, ytm, frequency) ==
    IF FLe(years_to_maturity, FZero) THEN face_value
    ELSE LET n_periods == lec01_periods(years_to_maturity, frequency)
             coupon_payment == FDiv(FMul(face_value, coupon_rate), FInt(frequency))
             discount_rate == FDiv(ytm, FInt(frequency))
             pv_coupons ==
                 FDiv(FMul(coupon_payment,
                           FSub(One, FPow(FAdd(One, discount_rate), -n_periods))),
                      discount_rate)
             pv_face == FDiv(face_value, FPow(FAdd(One, discount_rate), n_periods))
         IN  FAdd(pv_coupons, pv_face)

\* calculate_bond_price with the guard years < 0 in place of years <= 0
lec01_calculate_bond_price_guard_below_zero(face_value, coupon_rate, years_to_maturity, ytm, frequency) ==
    IF FLt(years_to_maturity, FZero) THEN face_value
    ELSE LET n_periods == lec01_periods(years_to_maturity, frequency)
             coupon_payment == FDiv(FMul(face_value, coupon_rate), FInt(frequency))
             discount_rate == FDiv(ytm, FInt(frequency))
             pv_coupons ==
                 IF FLt(FAbs(discount_rate), EPS)
                 THEN FMul(coupon_payment, FInt(n_periods))
                 ELSE FDiv(FMul(coupon_payment,
                                FSub(One, FPow(FAdd(One, discount_rate), -n_periods))),
                           discount_rate)
             pv_face == FDiv(face_value, FPow(FAdd(One, discount_rate), n_periods))
         IN  FAdd(pv_coupons, pv_face)

lec01_calculate_bond_price(face_value, coupon_rate, years_to_maturity, ytm, frequency) ==
    IF FLe(years_to_maturity, FZero) THEN face_value
    ELSE LET n_periods == lec01_periods(years_to_maturity, frequency)
             coupon_payment == FDiv(FMul(face_value, coupon_rate), FInt(frequency))
             discount_rate == FDiv(ytm, FInt(frequency))
             pv_coupons ==
                 IF FLt(FAbs(discount_rate), EPS)
                 THEN FMul(coupon_payment, FInt(n_periods))
                 ELSE FDiv(FMul(coupon_payment,
                                FSub(One, FPow(FAdd(One, discount_rate), -n_periods))),
                           discount_rate)
             pv_face == FDiv(face_value, FPow(FAdd(One, discount_rate), n_periods))
         IN  FAdd(pv_coupons, pv_face)

lec01_calculate_current_yield(coupon_rate, face_value, price) ==
    LET annual_coupon == FMul(coupon_rate, face_value)
    IN  IF IsRaised(price) THEN price
        ELSE IF ~FIsZero(price) THEN FDiv(annual_coupon, price) ELSE NaN

\* the label show_bond_pricing puts on a price
lec01_status(price, face_value) ==
    IF FLt(face_value, price) THEN "Premium"
    ELSE IF FLt(price, face_value) THEN "Discount"
    ELSE "Par"

lec01_ytm_approximation(price, face_value, coupon_rate, years_to_maturity) ==
    IF FLe(years_to_maturity, FZero) THEN NaN
    ELSE FDiv(FAdd(FMul(coupon_rate, face_value),
                   FDiv(FSub(face_value, price), years_to_maturity)),
              FDiv(FAdd(face_value, price), FInt(2)))

\* the present value of one cash flow in the loops of calculate_duration
\* and calculate_convexity
lec01_pv(cf, r, t) ==
    IF FLt(EPS, FAbs(r)) THEN FDiv(cf, FPow(FAdd(One, r), t)) ELSE cf

\* the loop of calculate_duration with the face value paid in every period
RECURSIVE lec01_duration_loop_face_each_period(_, _, _, _, _, _, _, _)
lec01_duration_loop_face_each_period(t, n, c, face_value, r, frequency, weighted_pv, total_pv) ==
    IF t > n \/ IsRaised(weighted_pv) \/ IsRaised(total_pv)
    THEN <<weighted_pv, total_pv>>
    ELSE LET cf == FAdd(c, face_value)
             pv == lec01_pv(cf, r, t)
             time_years == R(t, frequency)
         IN  lec01_duration_loop_face_each_period(t + 1, n, c, face_value, r, frequency,
                                                  FAdd(weighted_pv, FMul(time_years, pv)),
                                                  FAdd(total_pv, pv))

\* the loop of calculate_duration from period t on: <<weighted_pv, total_pv>>
RECURSIVE lec01_duration_loop(_, _, _, _, _, _, _, _)
lec01_duration_loop(t, n, c, face_value, r, frequency, weighted_pv, total_pv) ==
    IF t > n \/ IsRaised(weighted_pv) \/ IsRaised(total_pv)
    THEN <<weighted_pv, total_pv>>
    ELSE LET cf == IF t = n THEN FAdd(c, face_value) ELSE c
             pv == lec01_pv(cf, r, t)
             time_years == R(t, frequency)
         IN  lec01_duration_loop(t + 1, n, c, face_value, r, frequency,
                                 FAdd(weighted_pv, FMul(time_years, pv)),
                                 FAdd(total_pv, pv))

lec01_duration_sums(face_value, coupon_rate, years, ytm, frequency) ==
    LET n == lec01_periods(years, frequency)
        c == FDiv(FMul(face_value, coupon_rate), FInt(frequency))
        r == FDiv(ytm, FInt(frequency))
    IN  lec01_duration_loop(1, n, c, face_value, r, frequency, FZero, FZero)

lec01_calculate_duration(face_value, coupon_rate, years, ytm, frequency) ==
    LET sums == duration_sums("lec01", face_value, coupon_rate, years, ytm, frequency)
        weighted_pv == sums[1]
        total_pv == sums[2]
    IN  IF IsRaised(total_pv) THEN total_pv
        ELSE IF ~FIsZero(total_pv) THEN FDiv(weighted_pv, total_pv) ELSE NaN

\* calculate_modified_duration dividing by 1 + ytm, the annual yield
lec01_calculate_modified_duration_annual(macaulay_duration, ytm, frequency) ==
    FDiv(macaulay_duration, FAdd(One, ytm))

lec01_calculate_modified_duration(macaulay_duration, ytm, frequency) ==
    FDiv(macaulay_duration, FAdd(One, FDiv(ytm, FInt(frequency))))

\* the loop of calculate_convexity with the face value paid out, not received,
\* at maturity
RECURSIVE lec01_convexity_loop_face_paid(_, _, _, _, _, _)
lec01_convexity_loop_face_paid(t, n, c, face_value, r, convexity_sum) ==
    IF t > n \/ IsRaised(convexity_sum) THEN convexity_sum
    ELSE LET cf == IF t = n THEN FSub(c, face_value) ELSE c
             pv == lec01_pv(cf, r, t)
         IN  lec01_convexity_loop_face_paid(t + 1, n, c, face_value, r,
                                            FAdd(convexity_sum, FMul(pv, FInt(t * (t + 1)))))

RECURSIVE lec01_convexity_loop(_, _, _, _, _, _)
lec01_convexity_loop(t, n, c, face_value, r, convexity_sum) ==
    IF t > n \/ IsRaised(convexity_sum) THEN convexity_sum
    ELSE LET cf == IF t = n THEN FAdd(c, face_value) ELSE c
             pv == lec01_pv(cf, r, t)
         IN  lec01_convexity_loop(t + 1, n, c, face_value, r,
                                  FAdd(convexity_sum, FMul(pv, FInt(t * (t + 1)))))

lec01_calculate_convexity(face_value, coupon_rate, years, ytm, frequency) ==
    LET n == lec01_periods(years, frequency)
        c == FDiv(FMul(face_value, coupon_rate), FInt(frequency))
        r == FDiv(ytm, FInt(frequency))
        price == calculate_bond_price("lec01", face_value, coupon_rate, years, ytm, frequency)
        convexity_sum == lec01_convexity_loop(1, n, c, face_value, r, FZero)
    IN  IF IsRaised(price) THEN price
        ELSE IF FIsZero(price) THEN NaN
        ELSE FDiv(convexity_sum,
                  FMul(FMul(price, FPow(FAdd(One, r), 2)), FInt(frequency * frequency)))

lec01_price_change_duration(modified_duration, delta_yield) ==
    FMul(FNeg(modified_duration), delta_yield)

lec01_price_change_duration_convexity(modified_duration, convexity, delta_yield) ==
    FAdd(FMul(FNeg(modified_duration), delta_yield),
         FMul(FMul(R(1, 2), convexity), FPow(delta_yield, 2)))

(***************************************************************************)
(* lec02_bond_management.py: helper functions                              *)
(***************************************************************************)
\* _safe_periods with int() of the product, without round()
lec02_safe_periods_truncated(years, frequency) ==
    IF FLe(years, FZero) THEN 0
    ELSE Max(QFloor(FMul(years, FInt(frequency))[2]), 1)

lec02_safe_periods(years, frequency) ==
    IF FLe(years, FZero) THEN 0
    ELSE Max(PyRound(FMul(years, FInt(frequency))), 1)

lec02_calculate_bond_price(face_value, coupon_rate, years, ytm, frequency) ==
    IF FLe(years, FZero) THEN face_value
    ELSE LET n == lec02_safe_periods(years, frequency)
             c == FDiv(FMul(face_value, coupon_rate), FInt(frequency))
             r == FDiv(ytm, FInt(frequency))
             small == FLt(FAbs(r), EPS)
             pv_coupons == IF small THEN FMul(c, FInt(n))
                           ELSE FDiv(FMul(c, FSub(One, FPow(FAdd(One, r), -n))), r)
             pv_face == IF small THEN face_value
                        ELSE FDiv(face_value, FPow(FAdd(One, r), n))
         IN  FAdd(pv_coupons, pv_face)

lec02_pv(cf, r, t) ==
    IF FLt(FAbs(r), EPS) THEN cf ELSE FDiv(cf, FPow(FAdd(One, r), t))

\* the loop of calculate_duration with the time left in periods, not years
RECURSIVE lec02_duration_loop_in_periods(_, _, _, _, _, _, _, _)
lec02_duration_loop_in_periods(t, n, c, face_value, r, frequency, weighted_pv, total_pv) ==
    IF t > n \/ IsRaised(weighted_pv) \/ IsRaised(total_pv)
    THEN <<weighted_pv, total_pv>>
    ELSE LET cf == IF t = n THEN FAdd(c, face_value) ELSE c
             pv == lec02_pv(cf, r, t)
             time_in_years == FInt(t)
         IN  lec02_duration_loop_in_periods(t + 1, n, c, face_value, r, frequency,
                                            FAdd(weighted_pv, FMul(time_in_years, pv)),
                                            FAdd(total_pv, pv))

RECURSIVE lec02_duration_loop(_, _, _, _, _, _, _, _)
lec02_duration_loop(t, n, c, face_value, r, frequency, weighted_pv, total_pv) ==
    IF t > n \/ IsRaised(weighted_pv) \/ IsRaised(total_pv)
    THEN <<weighted_pv, total_pv>>
    ELSE LET cf == IF t = n THEN FAdd(c, face_value) ELSE c
             pv == lec02_pv(cf, r, t)
             time_in_years == R(t, frequency)
         IN  lec02_duration_loop(t + 1, n, c, face_value, r, frequency,
                                 FAdd(weighted_pv, FMul(time_in_years, pv)),
                                 FAdd(total_pv, pv))

\* <<weighted_pv, total_pv>> when calculate_duration returns; no schedule
\* is built for years <= 0
lec02_duration_sums(face_value, coupon_rate, years, ytm, frequency) ==
    IF FLe(years, FZero) THEN <<NoValue, NoValue>>
    ELSE LET n == lec02_safe_periods(years, frequency)
             c == FDiv(FMul(face_value, coupon_rate), FInt(frequency))
             r == FDiv(ytm, FInt(frequency))
         IN  lec02_duration_loop(1, n, c, face_value, r, frequency, FZero, FZero)

lec02_calculate_duration(face_value, coupon_rate, years, ytm, frequency) ==
    IF FLe(years, FZero) THEN FZero
    ELSE LET sums == duration_sums("lec02", face_value, coupon_rate, years, ytm, frequency)
             weighted_pv == sums[1]
             total_pv == sums[2]
         IN  IF IsRaised(total_pv) THEN total_pv
             ELSE IF ~FIsZero(total_pv) THEN FDiv(weighted_pv, total_pv) ELSE NaN

lec02_calculate_modified_duration(macaulay_duration, ytm, frequency) ==
    LET denom == FAdd(One, FDiv(ytm, FInt(frequency)))
    IN  IF ~FIsZero(denom) THEN FDiv(macaulay_duration, denom) ELSE NaN

RECURSIVE lec02_convexity_loop(_, _, _, _, _, _)
lec02_convexity_loop(t, n, c, face_value, r, convexity_sum) ==
    IF t > n \/ IsRaised(convexity_sum) THEN convexity_sum
    ELSE LET cf == IF t = n THEN FAdd(c, face_value) ELSE c
             pv == lec02_pv(cf, r, t)
         IN  lec02_convexity_loop(t + 1, n, c, face_value, r,
                                  FAdd(convexity_sum, FMul(pv, FInt(t * (t + 1)))))

lec02_calculate_convexity(face_value, coupon_rate, years, ytm, frequency) ==
    IF FLe(years, FZero) THEN FZero
    ELSE LET n == lec02_safe_periods(years, frequency)
             c == FDiv(FMul(face_value, coupon_rate), FInt(frequency))
             r == FDiv(ytm, FInt(frequency))
             price == calculate_bond_price("lec02", face_value, coupon_rate, years, ytm,
                                           frequency)
             convexity_sum == lec02_convexity_loop(1, n, c, face_value, r, FZero)
             denom == FMul(FMul(price, FPow(FAdd(One, r), 2)), FInt(frequency * frequency))
         IN  IF IsRaised(price) THEN price
             ELSE IF FIsZero(price) THEN NaN
             ELSE IF IsRaised(convexity_sum) THEN convexity_sum
             ELSE IF ~FIsZero(denom) THEN FDiv(convexity_sum, denom) ELSE NaN

lec02_price_change_duration(modified_duration, delta_yield) ==
    FMul(FNeg(modified_duration), delta_yield)

\* price_change_duration_convexity with the convexity effect subtracted
lec02_price_change_duration_convexity_subtracted(modified_duration, convexity, delta_yield) ==
    LET duration_effect == FMul(FNeg(modified_duration), delta_yield)
        convexity_effect == FMul(FMul(R(1, 2), convexity), FPow(delta_yield, 2))
    IN  FSub(duration_effect, convexity_effect)

lec02_price_change_duration_convexity(modified_duration, convexity, delta_yield) ==
    LET duration_effect == FMul(FNeg(modified_duration), delta_yield)
        convexity_effect == FMul(FMul(R(1, 2), convexity), FPow(delta_yield, 2))
    IN  FAdd(duration_effect, convexity_effect)

(***************************************************************************)
(* The calculator pages recompute everything from the widget values on     *)
(* every run; nothing of an earlier run is kept.  page names the page      *)
(* whose run is shown, calc the values of a calculator run, imm those of   *)
(* the immunization page.                                                  *)
(***************************************************************************)
\* the actual proportional price change of the calculators:
\* lec01 show_calculator divides unguarded, lec02 show_duration_calculator
\* yields NaN for a zero price
actual_change(mod, new_price, price) ==
    IF mod = "lec01" THEN FDiv(FSub(new_price, price), price)
    ELSE IF IsRaised(price) THEN price
    ELSE IF IsRaised(new_price) THEN new_price
    ELSE IF ~FIsZero(price) THEN FDiv(FSub(new_price, price), price) ELSE NaN

\* _safe_rel_error that divides whenever the actual change is not exactly 0
lec02_safe_rel_error_exact_zero(estimate, actual) ==
    IF IsRaised(actual) THEN actual
    ELSE IF IsRaised(estimate) THEN estimate
    ELSE IF FIsZero(actual)
         THEN (IF FLt(FAbs(estimate), EPS) THEN FZero ELSE Inf)
         ELSE FMul(FDiv(FAbs(FSub(estimate, actual)), FAbs(actual)), FInt(100))

\* lec02 _safe_rel_error: a comparison with NaN is false
lec02_safe_rel_error(estimate, actual) ==
    IF IsRaised(actual) THEN actual
    ELSE IF IsRaised(estimate) THEN estimate
    ELSE IF FLt(FAbs(actual), EPS)
         THEN (IF FLt(FAbs(estimate), EPS) THEN FZero ELSE Inf)
         ELSE FMul(FDiv(FAbs(FSub(estimate, actual)), FAbs(actual)), FInt(100))

\* the improvement line of lec02 show_duration_calculator: <<text, value>>
lec02_improvement(duration_error, convexity_error) ==
    IF IsInf(duration_error) \/ IsInf(convexity_error)
    THEN <<"n/a (actual change ~ 0)", FZero>>
    ELSE <<"percentage points", FSub(duration_error, convexity_error)>>

\* the first exception among the values of a run, in the order of the
\* statements; NoValue when the run completes
FirstRaised(vs) ==
    IF \E i \in 1..Len(vs) : IsRaised(vs[i])
    THEN vs[CHOOSE i \in 1..Len(vs) : IsRaised(vs[i]) /\ \A j \in 1..(i - 1) : ~IsRaised(vs[j])]
    ELSE NoValue

\* one run of the duration & convexity calculator on a bond and a yield change
Calculator(mod, face_value, coupon_rate, years, ytm, frequency, dy) ==
    LET price == calculate_bond_price(mod, face_value, coupon_rate, years, ytm, frequency)
        cy == IF mod = "lec01"
              THEN lec01_calculate_current_yield(coupon_rate, face_value, price)
              ELSE NoValue
        sums == duration_sums(mod, face_value, coupon_rate, years, ytm, frequency)
        D == calculate_duration(mod, face_value, coupon_rate, years, ytm, frequency)
        Dm == calculate_modified_duration(mod, D, ytm, frequency)
        C == calculate_convexity(mod, face_value, coupon_rate, years, ytm, frequency)
        new_price == calculate_bond_price(mod, face_value, coupon_rate, years,
                                          FAdd(ytm, dy), frequency)
        actual == actual_change(mod, new_price, price)
        est_d == price_change_duration(mod, Dm, dy)
        est_dc == price_change_duration_convexity(mod, Dm, C, dy)
        duration_error == IF mod = "lec02" THEN lec02_safe_rel_error(est_d, actual)
                          ELSE NoValue
        convexity_error == IF mod = "lec02" THEN lec02_safe_rel_error(est_dc, actual)
                           ELSE NoValue
        improvement == IF mod = "lec02"
                       THEN lec02_improvement(duration_error, convexity_error)
                       ELSE <<"none", NoValue>>
    IN  [mod |-> mod, face_value |-> face_value, coupon_rate |-> coupon_rate,
         years |-> years, ytm |-> ytm, frequency |-> frequency, dy |-> dy,
         price |-> price, cy |-> cy, total_pv |-> sums[2], D |-> D, Dm |-> Dm,
         C |-> C, new_price |-> new_price, actual |-> actual,
         est_d |-> est_d, est_dc |-> est_dc,
         duration_error |-> duration_error, convexity_error |-> convexity_error,
         improvement_text |-> improvement[1], improvement_val |-> improvement[2],
         raised |-> FirstRaised(<<price, D, Dm, C, new_price, actual>>)]

NoCalc == [mod |-> "none", face_value |-> NoValue, coupon_rate |-> NoValue,
           years |-> NoValue, ytm |-> NoValue, frequency |-> 0, dy |-> NoValue,
           price |-> NoValue, cy |-> NoValue, total_pv |-> NoValue, D |-> NoValue,
           Dm |-> NoValue, C |-> NoValue, new_price |-> NoValue, actual |-> NoValue,
           est_d |-> NoValue, est_dc |-> NoValue, duration_error |-> NoValue,
           convexity_error |-> NoValue, improvement_text |-> "none",
           improvement_val |-> NoValue, raised |-> NoValue]

(***************************************************************************)
(* lec02_bond_management.py: show_immunization                             *)
(***************************************************************************)
\* Python's max(a, b) on floats: b only when b > a
FMax(a, b) == IF FLt(a, b) THEN b ELSE a
IsWhole(x) == IsNum(x) /\ PIsReg(P(x)) /\ x[2][3] = <<1>>
WholePart(x) == x[2][1] * MToInt(x[2][2])
\* Python's a ** x for a float x: exact for a whole x and for a = 1
FPowFloat(a, x) == IF ~IsNum(a) THEN a
                   ELSE IF IsWhole(x) THEN FPow(a, WholePart(x))
                   ELSE IF FEq(a, One) THEN One
                   ELSE Unrepresentable

\* np.linspace(start, stop, num): start + i * (stop - start) / (num - 1)
np_linspace(start, stop, num) ==
    LET step == FDiv(FSub(stop, start), FInt(num - 1))
    IN  <<>> \o [i \in 1..num |-> FAdd(start, FMul(FInt(i - 1), step))]

\* np.nanargmin(a): the 0-based index of the first smallest entry that is
\* not NaN; -1 stands for the ValueError raised on an all-NaN array
\* within a[lo..hi], as a 1-based index, 0 when all are NaN
RECURSIVE nanargmin_range(_, _, _)
nanargmin_range(a, lo, hi) ==
    IF lo = hi THEN (IF IsNum(a[lo]) THEN lo ELSE 0)
    ELSE LET mid == (lo + hi) \div 2
             left == nanargmin_range(a, lo, mid)
             right == nanargmin_range(a, mid + 1, hi)
         IN  IF left = 0 THEN right
             ELSE IF right = 0 THEN left
             ELSE IF FLt(a[right], a[left]) THEN right ELSE left
\* the index of the first entry that is not NaN, whatever its size
np_first_not_nan(a) ==
    IF \A i \in 1..Len(a) : ~IsNum(a[i]) THEN -1
    ELSE (CHOOSE i \in 1..Len(a) : IsNum(a[i]) /\ \A j \in 1..(i - 1) : ~IsNum(a[j])) - 1
np_nanargmin(a) == nanargmin_range(a, 1, Len(a)) - 1

\* durations = [calculate_duration(1000, bond_coupon, m, current_ytm, 2)
\*              for m in test_maturities]
\* calculate_duration reads years only through _safe_periods(years, 2), so
\* the calls are evaluated once for every number of periods of the grid
imm_durations(test_maturities, bond_coupon, current_ytm) ==
    Apply("durations", <<test_maturities, bond_coupon, current_ytm>>)
imm_durations_impl(test_maturities, bond_coupon, current_ytm) ==
    LET periods == {lec02_safe_periods(test_maturities[i], 2) :
                        i \in 1..Len(test_maturities)}
        most == CHOOSE n \in periods : \A m \in periods : m <= n
        of_periods == <<>> \o [n \in 1..most |->
                          IF n \in periods
                          THEN calculate_duration("lec02", FInt(1000), bond_coupon, R(n, 2),
                                                  current_ytm, 2)
                          ELSE NoValue]
    IN  <<>> \o [i \in 1..Len(test_maturities) |->
                    IF FLe(test_maturities[i], FZero) THEN FZero
                    ELSE of_periods[lec02_safe_periods(test_maturities[i], 2)]]

\* the future value of the coupons of one bond at the liability date
RECURSIVE imm_fv_coupons_loop(_, _, _, _, _, _)
imm_fv_coupons_loop(t, n_periods, liability_years, coupon_payment, new_ytm, fv_coupons_one) ==
    IF t > n_periods \/ IsRaised(fv_coupons_one) THEN fv_coupons_one
    ELSE LET time_to_liability_years == FSub(liability_years, R(t, 2))
             grown == FMul(coupon_payment,
                           FPowFloat(FAdd(One, FDiv(new_ytm, FInt(2))),
                                     FMul(time_to_liability_years, FInt(2))))
         IN  imm_fv_coupons_loop(t + 1, n_periods, liability_years, coupon_payment, new_ytm,
                 IF FLt(FZero, time_to_liability_years)
                 THEN FAdd(fv_coupons_one, grown)
                 ELSE FAdd(fv_coupons_one, coupon_payment))

\* x if pd.notna(guard) else np.nan
IfNotNa(guard, x) == IF IsRaised(guard) THEN guard ELSE IF IsNaN(guard) THEN NaN ELSE x

NumCandidates == 100

NoImm == [liability_amount |-> NoValue, liability_years |-> NoValue,
          bond_coupon |-> NoValue, current_ytm |-> NoValue, rate_change |-> NoValue,
          test_maturities |-> <<>>, durations |-> <<>>, closest_idx |-> -1,
          optimal_maturity |-> NoValue, optimal_duration |-> NoValue,
          bond_price |-> NoValue, pv_liability |-> NoValue, num_bonds |-> NoValue,
          total_investment |-> NoValue, new_ytm |-> NoValue,
          new_bond_price |-> NoValue, portfolio_value_today |-> NoValue,
          n_periods |-> 0, coupon_payment |-> NoValue, fv_coupons_one |-> NoValue,
          fv_coupons_total |-> NoValue, remaining_time |-> NoValue,
          bond_value_at_target |-> NoValue, total_fv |-> NoValue,
          shortfall |-> NoValue, shortfall_pct |-> NoValue,
          raised |-> NoValue, shown |-> "nothing"]

\* The run of show_immunization, statement by statement: s holds the local
\* variables assigned so far, and each step below is s after the next
\* statements of the function.

\* the run ends in an exception, with what was shown before it
ImmRaise(s, raised, shown) == [s EXCEPT !.raised = raised, !.shown = shown]
\* a block is shown unless one of its statements raised
ImmShow(s, raised, shown, instead) ==
    ImmRaise(s, raised, IF raised # NoValue THEN instead ELSE shown)

\* the number inputs and the slider
ImmInputs(liability_amount, liability_years, bond_coupon, current_ytm, rate_change) ==
    [NoImm EXCEPT !.liability_amount = liability_amount,
                  !.liability_years = liability_years,
                  !.bond_coupon = bond_coupon, !.current_ytm = current_ytm,
                  !.rate_change = rate_change]

\* test_maturities = np.linspace(max(0.5, liability_years), liability_years + 10, 100)
ImmMaturities(s) ==
    [s EXCEPT !.test_maturities =
                  np_linspace(FMax(R(1, 2), s.liability_years),
                              FAdd(s.liability_years, FInt(10)), NumCandidates)]

ImmDurationsAre(s, durations, raised) ==
    IF raised # NoValue THEN ImmRaise(s, raised, "exception")
    ELSE [s EXCEPT !.durations = durations]
ImmDurationsOf(s, durations) == ImmDurationsAre(s, durations, FirstRaised(durations))
ImmDurations(s) ==
    ImmDurationsOf(s, imm_durations(s.test_maturities, s.bond_coupon, s.current_ytm))

\* closest_idx = np.nanargmin(np.abs(np.array(durations) - target_duration))
ImmClosestIs(s, closest_idx) ==
    IF closest_idx < 0 THEN ImmRaise(s, ValueError, "exception")
    ELSE [s EXCEPT !.closest_idx = closest_idx]
ImmClosest(s) ==
    IF s.raised # NoValue THEN s
    ELSE ImmClosestIs(s, np_nanargmin(<<>> \o [i \in 1..NumCandidates |->
                               FAbs(FSub(s.durations[i], s.liability_years))]))

\* the search of show_immunization up to np.nanargmin
ImmSearch(liability_amount, liability_years, bond_coupon, current_ytm, rate_change) ==
    ImmClosest(ImmDurations(ImmMaturities(
        ImmInputs(liability_amount, liability_years, bond_coupon, current_ytm,
                  rate_change))))

ImmOptimal(s) ==
    [s EXCEPT !.optimal_maturity = s.test_maturities[s.closest_idx + 1],
              !.optimal_duration = s.durations[s.closest_idx + 1]]
ImmPrices(s) ==
    [s EXCEPT !.bond_price = calculate_bond_price("lec02", FInt(1000), s.bond_coupon,
                                                  s.optimal_maturity, s.current_ytm, 2),
              !.pv_liability = IF FLt(FZero, FAdd(One, s.current_ytm))
                               THEN FDiv(s.liability_amount,
                                         FPowFloat(FAdd(One, s.current_ytm),
                                                   s.liability_years))
                               ELSE NaN]
\* the bond count from the liability amount itself, not its present value
ImmNumBonds_undiscounted(s) ==
    [s EXCEPT !.num_bonds = IF FLt(FZero, s.bond_price)
                            THEN FDiv(s.liability_amount, s.bond_price) ELSE NaN]
ImmNumBonds(s) ==
    [s EXCEPT !.num_bonds = IF FLt(FZero, s.bond_price)
                            THEN FDiv(s.pv_liability, s.bond_price) ELSE NaN]
ImmInvestment(s) == [s EXCEPT !.total_investment = FMul(s.num_bonds, s.bond_price)]
ImmStrategyShown(s) ==
    ImmShow(s, FirstRaised(<<s.bond_price, s.pv_liability, s.num_bonds>>),
            "strategy", "exception")

\* the strategy box of show_immunization, after a search that chose an index
ImmStrategy(s) == ImmStrategyShown(ImmInvestment(ImmNumBonds(ImmPrices(ImmOptimal(s)))))

ImmNewYield(s) == [s EXCEPT !.new_ytm = FAdd(s.current_ytm, s.rate_change)]
ImmNewPrice(s) ==
    [s EXCEPT !.new_bond_price = calculate_bond_price("lec02", FInt(1000), s.bond_coupon,
                                                      s.optimal_maturity, s.new_ytm, 2),
              !.n_periods = Max(PyRound(FMul(s.liability_years, FInt(2))), 1),
              !.coupon_payment = FDiv(FMul(FInt(1000), s.bond_coupon), FInt(2)),
              !.remaining_time = FMax(FZero, FSub(s.optimal_maturity, s.liability_years))]
ImmFutureValues(s) ==
    [s EXCEPT !.portfolio_value_today =
                  IfNotNa(s.num_bonds, FMul(s.num_bonds, s.new_bond_price)),
              !.fv_coupons_one =
                  imm_fv_coupons_loop(1, s.n_periods, s.liability_years,
                                      s.coupon_payment, s.new_ytm, FZero),
              !.bond_value_at_target =
                  calculate_bond_price("lec02", FInt(1000), s.bond_coupon,
                                       s.remaining_time, s.new_ytm, 2)]
ImmCouponsTotal(s) ==
    [s EXCEPT !.fv_coupons_total =
                  IfNotNa(s.num_bonds, FMul(s.num_bonds, s.fv_coupons_one))]
ImmTotal(s) ==
    [s EXCEPT !.total_fv =
                  IfNotNa(s.num_bonds, FAdd(FMul(s.num_bonds, s.bond_value_at_target),
                                            s.fv_coupons_total))]
ImmShortfall(s) ==
    [s EXCEPT !.shortfall = IfNotNa(s.total_fv, FSub(s.liability_amount, s.total_fv))]
ImmShortfallPct(s) ==
    [s EXCEPT !.shortfall_pct =
                  IF ~FIsZero(s.liability_amount)
                  THEN IfNotNa(s.shortfall,
                               FMul(FDiv(s.shortfall, s.liability_amount), FInt(100)))
                  ELSE NaN]
ImmPerformanceShown(s) ==
    ImmShow(s, FirstRaised(<<s.new_bond_price, s.fv_coupons_one, s.bond_value_at_target>>),
            "strategy, performance", "strategy, exception")

\* the performance test of show_immunization, after the strategy box
ImmPerformance(s) ==
    ImmPerformanceShown(ImmShortfallPct(ImmShortfall(ImmTotal(ImmCouponsTotal(
        ImmFutureValues(ImmNewPrice(ImmNewYield(s))))))))

ImmAfterStrategy(s) ==
    IF s.raised # NoValue THEN s ELSE Apply("performance", <<s>>)
ImmAfterSearch(s) ==
    IF s.raised # NoValue THEN s ELSE ImmAfterStrategy(Apply("strategy", <<s>>))

\* one run of show_immunization
Immunization(liability_amount, liability_years, bond_coupon, current_ytm, rate_change) ==
    ImmAfterSearch(Apply("search", <<liability_amount, liability_years, bond_coupon,
                                     current_ytm, rate_change>>))

(***************************************************************************)
(* lec02_bond_management.py: show_convexity.  conv holds the values of a   *)
(* run of the convexity page.  The price-yield curve of its plot is drawn  *)
(* from the same functions and keeps nothing.                              *)
(***************************************************************************)
Convexity(fv_conv, cr_conv, mat_conv, ytm_conv, test_yield_change) ==
    LET price_conv == calculate_bond_price("lec02", fv_conv, cr_conv, mat_conv, ytm_conv, 2)
        duration_conv == calculate_duration("lec02", fv_conv, cr_conv, mat_conv, ytm_conv, 2)
        mod_dur_conv == calculate_modified_duration("lec02", duration_conv, ytm_conv, 2)
        convexity_val == calculate_convexity("lec02", fv_conv, cr_conv, mat_conv, ytm_conv, 2)
        new_ytm_test == FMax(R(1, 10000), FAdd(ytm_conv, test_yield_change))
        actual_new_price == calculate_bond_price("lec02", fv_conv, cr_conv, mat_conv,
                                                 new_ytm_test, 2)
        actual_pct_change ==
            IF IsRaised(price_conv) THEN price_conv
            ELSE IF IsRaised(actual_new_price) THEN actual_new_price
            ELSE IF ~FIsZero(price_conv)
                 THEN FMul(FDiv(FSub(actual_new_price, price_conv), price_conv), FInt(100))
                 ELSE NaN
        duration_pct_change ==
            FMul(price_change_duration("lec02", mod_dur_conv, test_yield_change), FInt(100))
        convexity_pct_change ==
            FMul(price_change_duration_convexity("lec02", mod_dur_conv, convexity_val,
                                                 test_yield_change), FInt(100))
        duration_error ==
            IfNotNa(actual_pct_change, FAbs(FSub(duration_pct_change, actual_pct_change)))
        convexity_error ==
            IfNotNa(actual_pct_change, FAbs(FSub(convexity_pct_change, actual_pct_change)))
        improvement ==
            IF IsRaised(duration_error) THEN duration_error
            ELSE IF IsNum(duration_error) /\ FLt(FZero, duration_error)
                 THEN FMul(FDiv(FSub(duration_error, convexity_error), duration_error),
                           FInt(100))
                 ELSE FZero
    IN  [fv_conv |-> fv_conv, cr_conv |-> cr_conv, mat_conv |-> mat_conv,
         ytm_conv |-> ytm_conv, test_yield_change |-> test_yield_change,
         price_conv |-> price_conv, duration_conv |-> duration_conv,
         mod_dur_conv |-> mod_dur_conv, convexity_val |-> convexity_val,
         new_ytm_test |-> new_ytm_test, actual_new_price |-> actual_new_price,
         actual_pct_change |-> actual_pct_change,
         duration_pct_change |-> duration_pct_change,
         convexity_pct_change |-> convexity_pct_change,
         duration_error |-> duration_error, convexity_error |-> convexity_error,
         improvement |-> improvement]

NoConv == [fv_conv |-> NoValue, cr_conv |-> NoValue, mat_conv |-> NoValue,
           ytm_conv |-> NoValue, test_yield_change |-> NoValue,
           price_conv |-> NoValue, duration_conv |-> NoValue,
           mod_dur_conv |-> NoValue, convexity_val |-> NoValue,
           new_ytm_test |-> NoValue, actual_new_price |-> NoValue,
           actual_pct_change |-> NoValue, duration_pct_change |-> NoValue,
           convexity_pct_change |-> NoValue, duration_error |-> NoValue,
           convexity_error |-> NoValue, improvement |-> NoValue]

(***************************************************************************)
(* show_quiz of both lectures.  session is st.session_state: the score and *)
(* the set of submitted questions, which outlive a run; app names the      *)
(* lecture whose quiz page set the two keys ("none" while they are not     *)
(* set).  quiz holds what one run of the quiz page shows: the button that  *)
(* was clicked, the value of the radio of its question and the feedback    *)
(* line.  The score box below the questions is drawn from the session      *)
(* state as the handlers of the run leave it.  The value of a radio is an  *)
(* input of the run; an option is named by its position in the list.       *)
(***************************************************************************)
Questions == {"q1", "q2", "q3", "q4", "q5"}
Options == 1..4

\* the position of the answer each Submit handler compares with
CorrectChoice(mod, qkey) ==
    IF mod = "lec01"
    THEN (IF qkey = "q4" THEN 1 ELSE 2)
    ELSE (CASE qkey = "q1" -> 2 [] qkey = "q2" -> 3 [] qkey = "q3" -> 2
            [] qkey = "q4" -> 2 [] qkey = "q5" -> 4)

NoSession == [app |-> "none", score |-> 0, submitted |-> {}]
NoQuiz == [button |-> "none", selected |-> 0, shown |-> "none"]

\* submit without the test for a question that was submitted before
submit_every_click(s, qkey, correct_choice, selected) ==
    IF selected = correct_choice
    THEN [session |-> [s EXCEPT !.submitted = @ \cup {qkey}, !.score = @ + 1],
          shown |-> "Correct"]
    ELSE [session |-> [s EXCEPT !.submitted = @ \cup {qkey}],
          shown |-> "Incorrect"]

\* lec01 submit(qkey, correct_choice, selected); lec02 has the same
\* statements under "if st.button(...) and qkey not in submitted"
submit(s, qkey, correct_choice, selected) ==
    IF qkey \in s.submitted
    THEN [session |-> s, shown |-> "none"]
    ELSE IF selected = correct_choice
         THEN [session |-> [s EXCEPT !.submitted = @ \cup {qkey}, !.score = @ + 1],
               shown |-> "Correct"]
         ELSE [session |-> [s EXCEPT !.submitted = @ \cup {qkey}],
               shown |-> "Incorrect"]

\* Reset Quiz that leaves the submitted questions submitted
reset_quiz_score_only(s) == [s EXCEPT !.score = 0]

\* the two assignments of Reset Quiz
reset_quiz(s) == [s EXCEPT !.score = 0, !.submitted = {}]

\* the percentage of the score box of a run that ends with the session
\* state s: computed when a question was submitted
score_pct(s) ==
    IF Cardinality(s.submitted) > 0
    THEN FMul(FDiv(FInt(s.score), FInt(Cardinality(s.submitted))), FInt(100))
    ELSE NoValue

(***************************************************************************)
(* A call of one helper function on its own: call names the function, its  *)
(* module, the arguments and what the call returned or raised.             *)
(***************************************************************************)
NoCall == [f |-> "none", mod |-> "none", args |-> <<>>, result |-> NoValue]

\* as Call, with a result that reads the score of the session
Call_reading_session(f, mod, args) ==
    [f |-> f, mod |-> mod, args |-> args,
     result |->
         FAdd(FInt(session.score),
              CASE f = "calculate_bond_price" ->
                       calculate_bond_price(mod, args[1], args[2], args[3], args[4], args[5])
                [] f = "calculate_duration" ->
                       calculate_duration(mod, args[1], args[2], args[3], args[4], args[5])
                [] f = "calculate_modified_duration" ->
                       calculate_modified_duration(mod, args[1], args[2], args[3])
                [] f = "calculate_convexity" ->
                       calculate_convexity(mod, args[1], args[2], args[3], args[4], args[5])
                [] f = "price_change_duration" ->
                       price_change_duration(mod, args[1], args[2])
                [] f = "price_change_duration_convexity" ->
                       price_change_duration_convexity(mod, args[1], args[2], args[3])
                [] f = "ytm_approximation" ->
                       lec01_ytm_approximation(args[1], args[2], args[3], args[4]))]

Call(f, mod, args) ==
    [f |-> f, mod |-> mod, args |-> args,
     result |->
         CASE f = "calculate_bond_price" ->
                  calculate_bond_price(mod, args[1], args[2], args[3], args[4], args[5])
           [] f = "calculate_modified_duration" ->
                  calculate_modified_duration(mod, args[1], args[2], args[3])
           [] f = "calculate_duration" ->
                  calculate_duration(mod, args[1], args[2], args[3], args[4], args[5])
           [] f = "calculate_convexity" ->
                  calculate_convexity(mod, args[1], args[2], args[3], args[4], args[5])
           [] f = "price_change_duration" ->
                  price_change_duration(mod, args[1], args[2])
           [] f = "price_change_duration_convexity" ->
                  price_change_duration_convexity(mod, args[1], args[2], args[3])
           [] f = "ytm_approximation" ->
                  lec01_ytm_approximation(args[1], args[2], args[3], args[4])]

\* op applied to the arguments x
ApplyTo(op, x) ==
    CASE op = "QAdd" -> QAdd_impl(x[1], x[2])
      [] op = "QNorm" -> QNorm_impl(x[1], x[2], x[3])
      [] op = "QMul" -> QMul_impl(x[1], x[2])
      [] op = "QCmp" -> QCmp_impl(x[1], x[2])
      [] op = "QPow" -> QPow_impl(x[1], x[2])
      [] op = "FAdd" -> FAdd_impl(x[1], x[2])
      [] op = "FSub" -> FSub_impl(x[1], x[2])
      [] op = "FMul" -> FMul_impl(x[1], x[2])
      [] op = "FDiv" -> FDiv_impl(x[1], x[2])
      [] op = "FPow" -> FPow_impl(x[1], x[2])
      [] op = "PyRound" -> PyRound_impl(x[1])
      [] op = "calculate_bond_price" ->
            IF x[1] = "lec01"
            THEN lec01_calculate_bond_price(x[2], x[3], x[4], x[5], x[6])
            ELSE lec02_calculate_bond_price(x[2], x[3], x[4], x[5], x[6])
      [] op = "duration_sums" ->
            IF x[1] = "lec01"
            THEN lec01_duration_sums(x[2], x[3], x[4], x[5], x[6])
            ELSE lec02_duration_sums(x[2], x[3], x[4], x[5], x[6])
      [] op = "calculate_duration" ->
            IF x[1] = "lec01"
            THEN lec01_calculate_duration(x[2], x[3], x[4], x[5], x[6])
            ELSE lec02_calculate_duration(x[2], x[3], x[4], x[5], x[6])
      [] op = "calculate_modified_duration" ->
            IF x[1] = "lec01"
            THEN lec01_calculate_modified_duration(x[2], x[3], x[4])
            ELSE lec02_calculate_modified_duration(x[2], x[3], x[4])
      [] op = "calculate_convexity" ->
            IF x[1] = "lec01"
            THEN lec01_calculate_convexity(x[2], x[3], x[4], x[5], x[6])
            ELSE lec02_calculate_convexity(x[2], x[3], x[4], x[5], x[6])
      [] op = "price_change_duration" ->
            IF x[1] = "lec01"
            THEN lec01_price_change_duration(x[2], x[3])
            ELSE lec02_price_change_duration(x[2], x[3])
      [] op = "price_change_duration_convexity" ->
            IF x[1] = "lec01"
            THEN lec01_price_change_duration_convexity(x[2], x[3], x[4])
            ELSE lec02_price_change_duration_convexity(x[2], x[3], x[4])
      [] op = "durations" -> imm_durations_impl(x[1], x[2], x[3])
      [] op = "search" -> ImmSearch(x[1], x[2], x[3], x[4], x[5])
      [] op = "strategy" -> ImmStrategy(x[1])
      [] op = "performance" -> ImmPerformance(x[1])
      [] op = "show_calculator" -> Calculator(x[1], x[2], x[3], x[4], x[5], x[6], x[7])
      [] op = "show_immunization" -> Immunization(x[1], x[2], x[3], x[4], x[5])
      [] op = "show_convexity" -> Convexity(x[1], x[2], x[3], x[4], x[5])
      [] op = "call" -> Call(x[1], x[2], x[3])

\* the arguments are evaluated first, as Python evaluates them before a call
Apply(op, x) == IF Len(x) >= 0 THEN ApplyTo(op, x) ELSE x

\* The arguments of the analytics functions.  The calculator pages pass the
\* values of their widgets; the number inputs have no minimum or maximum, so
\* coupon rates and yields may be zero, negative or within 1e-12 of zero.
\* Years and yield changes range over what the functions accept, beyond the
\* calculators' sliders (whole years 1..30, changes of -300..300 bp).
\* MaxQuarters bounds the years to maturity, in quarters of a year.
MaxQuarters == 8

FaceValues == {FInt(1000)}
CouponRates == {FZero, R(8, 100), Tiny(1, 1), R(-2, 1)}
YearsToMaturity == {R(k, 4) : k \in 0..MaxQuarters}
Yields == {FZero, R(8, 100), Tiny(1, 1), R(-2, 1)}
Frequencies == {1, 2}
YieldChanges == {R(1, 100), R(-1, 100), Tiny(1, 1), FInt(1)}

\* the scenarios the documentation states: a discount bond and a par bond
Scenarios == {<<FInt(1000), R(6, 100), FInt(10), R(8, 100), 2, R(1, 100)>>,
              <<FInt(1000), R(8, 100), FInt(10), R(8, 100), 2, R(1, 100)>>}
\* <<face value, coupon rate, years, yield, frequency, yield change>>
Bonds == (FaceValues \X CouponRates \X YearsToMaturity \X Yields \X Frequencies
              \X YieldChanges) \cup Scenarios

\* the inputs of the immunization page: the defaults (10000 due in 5 years,
\* coupon 6%, yield 8%) and values typed into the unbounded number inputs
LiabilityAmounts == {FInt(10000)}
LiabilityYears == {FInt(0), FInt(1), FInt(2), FInt(-12)}
BondCoupons == {FZero, R(6, 100), R(-1, 10), R(-1, 2)}
CurrentYields == {FZero, Tiny(1, 1), R(-2, 1)}
RateChanges == {FZero, R(1, 100), R(-3, 100)}
ImmScenarios == {<<FInt(10000), FInt(5), R(6, 100), R(8, 100), FZero>>,
                 <<FInt(10000), R(-48, 5), R(-2, 1), FZero, FZero>>,
                 <<FInt(10000), FInt(1), R(6, 100), R(-3, 2), FZero>>}
\* <<liability amount, liability years, coupon, yield, yield change>>
Liabilities == (LiabilityAmounts \X LiabilityYears \X BondCoupons \X CurrentYields
                    \X RateChanges) \cup ImmScenarios

\* the arguments of the calls of single functions: years on both sides of
\* zero, a Macaulay duration that is a number or NaN, and prices and face
\* values as typed into the unbounded number inputs of the yield page
CallYears == {R(k, 4) : k \in (0 - MaxQuarters)..MaxQuarters}
\* the yields of the calculator and one with a periodic rate between -1 and 0
CallYields == Yields \cup {R(-1, 2)}
\* <<face_value, coupon_rate, years, ytm, frequency>>
PriceCalls == FaceValues \X CouponRates \X CallYears \X CallYields \X Frequencies
MacaulayDurations == {FZero, R(3, 2), FInt(-1), NaN}
ModifiedDurationCalls == MacaulayDurations \X Yields \X Frequencies
ApproxPrices == {FInt(1100), FInt(1000), FZero, FInt(-1000)}
ApproxFaces == {FInt(1000), FZero}
ApproxYears == {FInt(-1), FZero, FInt(1), FInt(10)}
\* <<price, face value, coupon rate, years>>
ApproximationCalls == ApproxPrices \X ApproxFaces \X CouponRates \X ApproxYears

\* the inputs of the convexity page: the face value and the coupon of the
\* defaults, maturities of the slider (whole years from 1), yields typed into
\* the number input and yield changes of the slider (steps of 25 bp)
ConvCoupons == {R(6, 100), FZero}
ConvMaturities == {FInt(1), FInt(2)}
ConvYields == {R(8, 100), FZero}
TestYieldChanges == {R(1, 100), R(-1, 100), R(2, 100), FZero}
\* <<face value, coupon rate, maturity, yield, yield change>>
ConvBonds == FaceValues \X ConvCoupons \X ConvMaturities \X ConvYields
                 \X TestYieldChanges

\* calls of the six analytics functions after the quiz was used: a two-year
\* bond, a Macaulay duration, a convexity and a yield change
\* <<function, arguments>>
AnalyticsCalls ==
    {<<f, <<FInt(1000), R(6, 100), FInt(2), R(8, 100), 2>>>> :
         f \in {"calculate_bond_price", "calculate_duration", "calculate_convexity"}}
    \cup {<<"calculate_modified_duration", <<R(3, 2), R(8, 100), 2>>>>,
          <<"price_change_duration", <<R(3, 2), R(1, 100)>>>>,
          <<"price_change_duration_convexity", <<R(3, 2), FInt(4), R(1, 100)>>>>}

Init ==
    /\ page = "home" /\ calc = NoCalc /\ imm = NoImm /\ call = NoCall
    /\ conv = NoConv /\ session = NoSession /\ quiz = NoQuiz

ShowCalculator ==
    /\ page = "home"
    /\ \E mod \in Modules, b \in Bonds :
          calc' = Apply("show_calculator", <<mod, b[1], b[2], b[3], b[4], b[5], b[6]>>)
    /\ page' = "calculator"
    /\ UNCHANGED <<imm, call, conv, session, quiz>>

\* the next run starts from the widgets and the session state alone
Home ==
    /\ page # "home"
    /\ page' = "home" /\ calc' = NoCalc /\ imm' = NoImm /\ call' = NoCall
    /\ conv' = NoConv /\ quiz' = NoQuiz
    /\ UNCHANGED session

ShowConvexity ==
    /\ page = "home"
    /\ \E b \in ConvBonds :
          conv' = Apply("show_convexity", <<b[1], b[2], b[3], b[4], b[5]>>)
    /\ page' = "convexity"
    /\ UNCHANGED <<calc, imm, call, session, quiz>>

\* the first run of a quiz page sets the two keys of the session state
ShowQuiz ==
    /\ page = "home"
    /\ \E mod \in Modules :
          /\ session.app \in {"none", mod}
          /\ session' = [session EXCEPT !.app = mod]
          /\ quiz' = NoQuiz
    /\ page' = "quiz"
    /\ UNCHANGED <<calc, imm, call, conv>>

\* a radio is changed: a run in which no button was clicked
Select ==
    /\ page = "quiz"
    /\ \E o \in Options :
          quiz' = [NoQuiz EXCEPT !.selected = o]
    /\ UNCHANGED <<page, calc, imm, call, conv, session>>

\* Submit of one question is clicked
Submit ==
    /\ page = "quiz"
    /\ \E qkey \in Questions, o \in Options :
          /\ session' = submit(session, qkey, CorrectChoice(session.app, qkey), o).session
          /\ quiz' = [button |-> qkey, selected |-> o,
                      shown |-> submit(session, qkey, CorrectChoice(session.app, qkey),
                                       o).shown]
    /\ UNCHANGED <<page, calc, imm, call, conv>>

\* Reset Quiz is clicked: the keys are set anew and st.rerun() runs the page
\* again, which shows no score box
Reset ==
    /\ page = "quiz"
    /\ session' = reset_quiz(session)
    /\ quiz' = [NoQuiz EXCEPT !.button = "reset"]
    /\ UNCHANGED <<page, calc, imm, call, conv>>

ShowImmunization ==
    /\ page = "home"
    /\ \E l \in Liabilities :
          imm' = Apply("show_immunization", <<l[1], l[2], l[3], l[4], l[5]>>)
    /\ page' = "immunization"
    /\ UNCHANGED <<calc, call, conv, session, quiz>>

CallBondPrice ==
    /\ page = "home"
    /\ \E mod \in Modules, a \in PriceCalls :
          call' = Apply("call", <<"calculate_bond_price", mod, a>>)
    /\ page' = "function"
    /\ UNCHANGED <<calc, imm, conv, session, quiz>>

CallConvexity ==
    /\ page = "home"
    /\ \E mod \in Modules, a \in PriceCalls :
          call' = Apply("call", <<"calculate_convexity", mod, a>>)
    /\ page' = "function"
    /\ UNCHANGED <<calc, imm, conv, session, quiz>>

CallModifiedDuration ==
    /\ page = "home"
    /\ \E mod \in Modules, a \in ModifiedDurationCalls :
          call' = Apply("call", <<"calculate_modified_duration", mod, a>>)
    /\ page' = "function"
    /\ UNCHANGED <<calc, imm, conv, session, quiz>>

CallYtmApproximation ==
    /\ page = "home"
    /\ \E a \in ApproximationCalls :
          call' = Apply("call", <<"ytm_approximation", "lec01", a>>)
    /\ page' = "function"
    /\ UNCHANGED <<calc, imm, conv, session, quiz>>

\* a page calls one of the analytics functions
CallAnalytics ==
    /\ page = "home"
    /\ \E mod \in Modules, c \in AnalyticsCalls :
          call' = Apply("call", <<c[1], mod, c[2]>>)
    /\ page' = "function"
    /\ UNCHANGED <<calc, imm, conv, session, quiz>>

\* the calculator pages
Next == ShowCalculator \/ ShowConvexity \/ Home

Spec == Init /\ [][Next]_vars

\* the immunization page
ImmunizationNext == ShowImmunization \/ Home

ImmunizationSpec == Init /\ [][ImmunizationNext]_vars

\* the quiz page
QuizNext == ShowQuiz \/ Select \/ Submit \/ Reset \/ Home

QuizSpec == Init /\ [][QuizNext]_vars

\* the quiz page and calls of the analytics functions in one session
SessionNext == ShowQuiz \/ Select \/ Submit \/ Reset \/ CallAnalytics \/ Home

SessionSpec == Init /\ [][SessionNext]_vars

\* the helper functions called on their own
FunctionsNext ==
    \/ CallBondPrice
    \/ CallConvexity
    \/ CallModifiedDuration
    \/ CallYtmApproximation
    \/ Home

FunctionsSpec == Init /\ [][FunctionsNext]_vars

(***************************************************************************)
(* Properties                                                              *)
(***************************************************************************)
\* equal within floating tolerance: the same regular part
Close(a, b) == IsNum(a) /\ IsNum(b) /\ QCmp(a[2], b[2]) = 0
\* equal to the last multiple of 1e-12
Exact(a, b) == Close(a, b) /\ QCmp(a[3], b[3]) = 0

PeriodicRate(c) == FDiv(c.ytm, FInt(c.frequency))

\* C1: a bond priced at an annual yield equal to its coupon rate is priced
\* at its face value, and the current yield on that price is the coupon rate
C1_ParPrice ==
    (page = "calculator" /\ calc.ytm = calc.coupon_rate)
        => /\ Close(calc.price, calc.face_value)
           /\ (calc.mod = "lec01" => Close(calc.cy, calc.coupon_rate))

\* the same away from a periodic rate of -1
C1_ParPrice_Defined ==
    (page = "calculator" /\ calc.ytm = calc.coupon_rate
        /\ ~FIsZero(FAdd(One, PeriodicRate(calc))))
        => /\ Close(calc.price, calc.face_value)
           /\ (calc.mod = "lec01" => Close(calc.cy, calc.coupon_rate))

Positive(v) == FLt(FZero, v)
NonNegative(v) == FLe(FZero, v)
InBand(r) == FLt(FAbs(r), EPS)
NewRate(c) == FDiv(FAdd(c.ytm, c.dy), FInt(c.frequency))
\* the number of coupon periods of a bond with years > 0
Periods(c) == lec01_periods(c.years, c.frequency)
WholePeriods(c) == LET q == FMul(c.years, FInt(c.frequency))[2]
                   IN  q[1] = 1 /\ q[3] = <<1>>

\* the periodic rates before and after the yield change are above -1
OrdinaryRates(c) ==
    Positive(FAdd(One, PeriodicRate(c))) /\ Positive(FAdd(One, NewRate(c)))

SingleTerminalCashFlow(c) == Periods(c) = 1 \/ FIsZero(c.coupon_rate)

ErrorDuration(c) == FAbs(FSub(c.est_d, c.actual))
ErrorConvexity(c) == FAbs(FSub(c.est_dc, c.actual))
\* a bond with positive cash flows, repriced at periodic rates above -1
PositiveSchedule(c) ==
    NonNegative(c.coupon_rate) /\ Positive(c.years) /\ OrdinaryRates(c)
\* ((1 + r') / (1 + r)) ^ (N + 2) <= 2 for the periodic rates r before and
\* r' after the change
ModerateIncrease(c) ==
    FLe(FPow(FDiv(FAdd(One, NewRate(c)), FAdd(One, PeriodicRate(c))), Periods(c) + 2),
        FInt(2))

C6_ScheduleReproducesPrice ==
    (page = "calculator" /\ NonNegative(calc.coupon_rate)
        /\ Positive(FAdd(One, PeriodicRate(calc)))
        /\ IsNum(calc.total_pv) /\ IsNum(calc.price))
        => Exact(calc.total_pv, calc.price)

\* the same for lec02 alone, which builds no schedule for years <= 0
C6_ScheduleReproducesPrice_lec02 ==
    (page = "calculator" /\ calc.mod = "lec02" /\ calc.raised = NoValue)
        => IF Positive(calc.years) THEN Exact(calc.total_pv, calc.price)
           ELSE calc.total_pv = NoValue /\ Exact(calc.price, calc.face_value)

IsScenario(c, coupon) ==
    /\ c.face_value = FInt(1000) /\ c.coupon_rate = coupon /\ c.years = FInt(10)
    /\ c.ytm = R(8, 100) /\ c.frequency = 2
\* v rounded to two decimals is cents / 100
RoundsTo(v, cents) ==
    FLe(R(2 * cents - 1, 200), v) /\ FLt(v, R(2 * cents + 1, 200))

\* C7 as stated: face 1000, coupon 6%, 10 years, yield 8%, semi-annual:
\* price 864.10 (below face), duration 7.04, modified duration 6.77
C7_DocumentedScenario ==
    (page = "calculator" /\ IsScenario(calc, R(6, 100)))
        => /\ RoundsTo(calc.price, 86410) /\ FLt(calc.price, calc.face_value)
           /\ RoundsTo(calc.D, 704)
           /\ RoundsTo(calc.Dm, 677)

\* C7 amended: price 864.10 (below face), duration 7.45, modified
\* duration 7.17
C7_ScenarioValues ==
    (page = "calculator" /\ IsScenario(calc, R(6, 100)))
        => /\ RoundsTo(calc.price, 86410) /\ FLt(calc.price, calc.face_value)
           /\ RoundsTo(calc.D, 745)
           /\ RoundsTo(calc.Dm, 717)

C7_Witness ==
    /\ page = "calculator" /\ IsScenario(calc, R(6, 100)) /\ calc.mod = "lec01"
    /\ RoundsTo(calc.price, 86410) /\ RoundsTo(calc.D, 745)

\* the search of show_immunization came to a choice
Chosen == page = "immunization" /\ imm.closest_idx >= 0
Candidates == 1..NumCandidates
Distance(i) == FAbs(FSub(imm.durations[i], imm.liability_years))
Defined(i) == IsNum(imm.durations[i])

\* C8: the chosen maturity is a candidate of the grid from
\* max(0.5, liability years) to liability years + 10, is >= the liability
\* years, and its duration is the closest to the target among the candidates
\* with a defined duration; with liability years 5, coupon 6%, yield 8% the
\* chosen maturity is >= 5
C8_ClosestCandidate ==
    Chosen =>
        LET k == imm.closest_idx + 1
        IN  /\ k \in Candidates
            /\ imm.optimal_maturity = imm.test_maturities[k]
            /\ Exact(imm.test_maturities[1], FMax(R(1, 2), imm.liability_years))
            /\ Exact(imm.test_maturities[NumCandidates], FAdd(imm.liability_years, FInt(10)))
            /\ \A i \in Candidates :
                  \/ /\ FLe(imm.test_maturities[1], imm.test_maturities[i])
                     /\ FLe(imm.test_maturities[i], imm.test_maturities[NumCandidates])
                  \/ /\ FLe(imm.test_maturities[NumCandidates], imm.test_maturities[i])
                     /\ FLe(imm.test_maturities[i], imm.test_maturities[1])
            /\ FLe(imm.liability_years, imm.optimal_maturity)
            /\ imm.optimal_duration =
                   lec02_calculate_duration(FInt(1000), imm.bond_coupon,
                                            imm.optimal_maturity, imm.current_ytm, 2)
            /\ Defined(k)
            /\ \A i \in Candidates : Defined(i) => FLe(Distance(k), Distance(i))

DefaultLiability ==
    /\ imm.liability_years = FInt(5) /\ imm.bond_coupon = R(6, 100)
    /\ imm.current_ytm = R(8, 100)

C8_Witness ==
    /\ Chosen /\ DefaultLiability
    /\ FLe(FInt(5), imm.optimal_maturity)
    /\ \E i \in Candidates : Defined(i) /\ FLt(Distance(imm.closest_idx + 1), Distance(i))

\* C9: among the candidates whose duration is as close to the target as
\* the chosen one's, the chosen maturity is the smallest
C9_SmallestAmongTies ==
    Chosen =>
        \A i \in Candidates :
            (Defined(i) /\ FEq(Distance(i), Distance(imm.closest_idx + 1)))
                => FLe(imm.optimal_maturity, imm.test_maturities[i])

\* the same on a grid that ascends (liability years >= -9.5)
C9_SmallestAmongTies_Ascending ==
    (Chosen /\ FLe(R(-19, 2), imm.liability_years))
        => \A i \in Candidates :
               (Defined(i) /\ FEq(Distance(i), Distance(imm.closest_idx + 1)))
                   => FLe(imm.optimal_maturity, imm.test_maturities[i])

\* C10: when no candidate has a defined duration, or the bond price at the
\* chosen maturity is <= 0, the page neither raises nor shows a strategy
Infeasible ==
    \/ /\ Len(imm.durations) = NumCandidates
       /\ \A i \in Candidates : IsNaN(imm.durations[i])
    \/ IsNum(imm.bond_price) /\ FLe(imm.bond_price, FZero)
C10_NoFeasibleMaturity ==
    (page = "immunization" /\ Infeasible)
        => imm.raised = NoValue /\ imm.shown \notin {"strategy", "strategy, performance"}

\* C11: calculate_bond_price raises no exception for any coupon rate <= 0
\* and any annual yield <= 0 (face value > 0, frequency >= 1, years >= 0),
\* the yield equal to minus the frequency included: it returns a number
C11_PriceNeverRaises ==
    (page = "calculator" /\ Positive(calc.face_value) /\ NonNegative(calc.years)
        /\ FLe(calc.coupon_rate, FZero) /\ FLe(calc.ytm, FZero))
        => IsNum(calc.price)

\* 1 + annualYield / frequency of a call of calculate_modified_duration,
\* whose arguments are <<macaulay_duration, ytm, frequency>>
CallDenominator == FAdd(One, FDiv(call.args[2], FInt(call.args[3])))

\* C12: calculate_modified_duration never raises: it returns NaN when
\* 1 + annualYield / frequency is 0 and macaulay / (1 + annualYield /
\* frequency) otherwise, in both modules
C12_ModifiedDurationNeverRaises ==
    (page = "function" /\ call.f = "calculate_modified_duration")
        => IF FIsZero(CallDenominator)
           THEN IsNaN(call.result)
           ELSE call.result = FDiv(call.args[1], CallDenominator)

\* the same in lec02 alone
C12_ModifiedDurationNeverRaises_lec02 ==
    (page = "function" /\ call.f = "calculate_modified_duration"
        /\ call.mod = "lec02")
        => IF FIsZero(CallDenominator)
           THEN IsNaN(call.result)
           ELSE call.result = FDiv(call.args[1], CallDenominator)

\* C13: whenever the price is exactly 0, calculate_current_yield and
\* calculate_convexity return NaN instead of raising, calculate_duration
\* returns NaN when the summed present value of the schedule is 0, and for
\* any non-zero price the three return a defined number
C13_ZeroPriceSentinel ==
    (page = "calculator" /\ IsNum(calc.price))
        => /\ FIsZero(calc.price)
                => IsNaN(calc.C) /\ (calc.mod = "lec01" => IsNaN(calc.cy))
           /\ FIsZero(calc.total_pv) => IsNaN(calc.D)
           /\ ~FIsZero(calc.price)
                => /\ IsNum(calc.C) /\ IsNum(calc.D)
                   /\ calc.mod = "lec01" => IsNum(calc.cy)

\* the sentinels alone: NaN at a price of exactly 0 and at a schedule whose
\* present values sum to 0
C13_SentinelAtZero ==
    (page = "calculator" /\ IsNum(calc.price))
        => /\ FIsZero(calc.price)
                => IsNaN(calc.C) /\ (calc.mod = "lec01" => IsNaN(calc.cy))
           /\ FIsZero(calc.total_pv) => IsNaN(calc.D)

C13_ZeroPriceReached ==
    page = "calculator" /\ IsNum(calc.price) /\ FIsZero(calc.price)
        /\ IsNaN(calc.C) /\ IsNaN(calc.D)

\* the arguments <<price, face_value, coupon_rate, years_to_maturity>> of a
\* call of ytm_approximation
ApproxFormula ==
    FDiv(FAdd(FMul(call.args[3], call.args[2]),
              FDiv(FSub(call.args[2], call.args[1]), call.args[4])),
         FDiv(FAdd(call.args[2], call.args[1]), FInt(2)))

\* C14: ytm_approximation returns NaN for every years <= 0, and for every
\* years > 0 it returns (couponRate * face + (face - price) / years) /
\* ((face + price) / 2) without raising, for all prices and face values
C14_ApproximationNeverRaises ==
    (page = "function" /\ call.f = "ytm_approximation")
        => IF FLe(call.args[4], FZero)
           THEN IsNaN(call.result)
           ELSE IsNum(call.result) /\ call.result = ApproxFormula

\* the same wherever face + price is not zero
C14_ApproximationAwayFromZeroSum ==
    (page = "function" /\ call.f = "ytm_approximation"
        /\ ~FIsZero(FAdd(call.args[2], call.args[1])))
        => IF FLe(call.args[4], FZero)
           THEN IsNaN(call.result)
           ELSE IsNum(call.result) /\ call.result = ApproxFormula

\* C15: for every years <= 0, calculate_bond_price returns the face value
\* unchanged, whatever the coupon rate, the yield and the frequency; the
\* arguments of the call are <<face_value, coupon_rate, years, ytm, frequency>>
C15_MaturedBondPrice ==
    (page = "function" /\ call.f = "calculate_bond_price"
        /\ FLe(call.args[3], FZero))
        => call.result = call.args[1]

\* a matured bond priced at a yield of minus the frequency, where a bond
\* with years > 0 has no price
C15_Witness ==
    /\ page = "function" /\ call.f = "calculate_bond_price"
    /\ FLt(call.args[3], FZero)
    /\ FIsZero(FAdd(One, FDiv(call.args[4], FInt(call.args[5]))))
    /\ ~FIsZero(call.args[2])
    /\ call.result = call.args[1]

\* C16: for years > 0, face > 0 and a periodic rate above -1, lec01's
\* calculate_bond_price is above the face value when the yield is below the
\* coupon rate and below it when the yield is above the coupon rate, and the
\* label of the pricing page is Premium in the first case and Discount in
\* the second
C16_PremiumDiscount ==
    (page = "calculator" /\ calc.mod = "lec01"
        /\ Positive(calc.years) /\ Positive(calc.face_value)
        /\ Positive(FAdd(One, PeriodicRate(calc))))
        => /\ FLt(calc.ytm, calc.coupon_rate)
                => /\ FLt(calc.face_value, calc.price)
                   /\ lec01_status(calc.price, calc.face_value) = "Premium"
           /\ FLt(calc.coupon_rate, calc.ytm)
                => /\ FLt(calc.price, calc.face_value)
                   /\ lec01_status(calc.price, calc.face_value) = "Discount"

\* a bond without coupons at a yield of 1e-12, labelled Discount
C16_Witness ==
    /\ page = "calculator" /\ calc.mod = "lec01" /\ Positive(calc.years)
    /\ InBand(PeriodicRate(calc)) /\ FLt(calc.coupon_rate, calc.ytm)
    /\ lec01_status(calc.price, calc.face_value) = "Discount"

\* the side of the face value in lec02, which has no pricing page: not the
\* stated one at a periodic rate within 1e-12 of zero, where the price is
\* the sum of the cash flows
C16_PremiumDiscount_lec02 ==
    (page = "calculator" /\ calc.mod = "lec02"
        /\ Positive(calc.years) /\ Positive(calc.face_value)
        /\ Positive(FAdd(One, PeriodicRate(calc))))
        => /\ FLt(calc.ytm, calc.coupon_rate) => FLt(calc.face_value, calc.price)
           /\ FLt(calc.coupon_rate, calc.ytm) => FLt(calc.price, calc.face_value)

\* the periodic rate of a call with the arguments <<face_value, coupon_rate,
\* years, ytm, frequency>>
CallPeriodicRate == FDiv(call.args[4], FInt(call.args[5]))

\* C17: for face > 0, coupon rate >= 0, years >= 0 and a periodic rate
\* above -1, calculate_convexity returns a value >= 0
C17_ConvexityNonNegative ==
    (page = "function" /\ call.f = "calculate_convexity"
        /\ Positive(call.args[1]) /\ NonNegative(call.args[2])
        /\ NonNegative(call.args[3]) /\ Positive(FAdd(One, CallPeriodicRate)))
        => NonNegative(call.result)

\* a bond with coupons and more than one period at a negative periodic rate
\* above -1, whose convexity is positive
C17_Witness ==
    /\ page = "function" /\ call.f = "calculate_convexity"
    /\ Positive(call.args[2]) /\ Positive(call.args[3])
    /\ lec01_periods(call.args[3], call.args[5]) > 1
    /\ Positive(FAdd(One, CallPeriodicRate)) /\ Positive(FNeg(CallPeriodicRate))
    /\ Positive(call.result)

\* a matured bond: lec02 returns 0 for its convexity, lec01 that of a
\* one-period bond
C17_MaturedBond ==
    /\ page = "function" /\ call.f = "calculate_convexity"
    /\ FIsZero(call.args[3]) /\ NonNegative(call.args[2])
    /\ Positive(FAdd(One, CallPeriodicRate))
    /\ IF call.mod = "lec02" THEN FIsZero(call.result) ELSE Positive(call.result)

\* the strategy box of the immunization page is shown
StrategyShown ==
    page = "immunization" /\ imm.shown \in {"strategy", "strategy, performance"}

\* C18 as stated: whenever the bond price is > 0 the total investment (bond
\* count x bond price) equals PV(liability) and, with a zero yield shock,
\* the portfolio value today also equals PV(liability)
C18_InvestmentEqualsPV ==
    (StrategyShown /\ Positive(imm.bond_price))
        => /\ Close(imm.total_investment, imm.pv_liability)
           /\ (FIsZero(imm.rate_change) /\ imm.shown = "strategy, performance")
                => Close(imm.portfolio_value_today, imm.pv_liability)

\* C18 amended: whenever the bond price is > 0 and 1 + annual yield is > 0,
\* the bond count is PV(liability) / bond price with PV(liability) =
\* liability amount / (1 + annual yield)^liability years, the total
\* investment equals PV(liability) and, with a zero yield shock, so does the
\* portfolio value today
C18_InvestmentEqualsPV_PositiveDiscount ==
    (StrategyShown /\ Positive(imm.bond_price)
        /\ Positive(FAdd(One, imm.current_ytm)))
        => /\ imm.pv_liability
                = FDiv(imm.liability_amount,
                       FPowFloat(FAdd(One, imm.current_ytm), imm.liability_years))
           /\ imm.num_bonds = FDiv(imm.pv_liability, imm.bond_price)
           /\ Close(imm.total_investment, imm.pv_liability)
           /\ (FIsZero(imm.rate_change) /\ imm.shown = "strategy, performance")
                => Close(imm.portfolio_value_today, imm.pv_liability)

\* the default liability without a yield shock: the bonds bought are worth
\* the present value of the liability, which is below the liability
C18_Witness ==
    /\ StrategyShown /\ DefaultLiability /\ FIsZero(imm.rate_change)
    /\ Positive(imm.bond_price) /\ imm.shown = "strategy, performance"
    /\ FLt(imm.pv_liability, imm.liability_amount)
    /\ Close(imm.total_investment, imm.pv_liability)
    /\ Close(imm.portfolio_value_today, imm.pv_liability)

\* at a yield of -150% the bond has a positive price and the present value
\* of the liability, the bond count and the total investment are NaN
C18_NegativeDiscount ==
    /\ StrategyShown /\ Positive(imm.bond_price)
    /\ ~Positive(FAdd(One, imm.current_ytm))
    /\ IsNaN(imm.pv_liability) /\ IsNaN(imm.num_bonds)
    /\ IsNaN(imm.total_investment)

\* the sum of the cash flows of a schedule from period t on, each divided by
\* (1 + r) ^ t if discounted and multiplied by t * (t + 1) if weighted
RECURSIVE ScheduleValue(_, _, _, _, _, _, _, _)
ScheduleValue(t, n, c, face_value, r, weighted, discounted, sum) ==
    IF t > n THEN sum
    ELSE ScheduleValue(t + 1, n, c, face_value, r, weighted, discounted,
             FAdd(sum,
                  FMul(IF discounted
                       THEN FDiv(IF t = n THEN FAdd(c, face_value) ELSE c,
                                 FPow(FAdd(One, r), t))
                       ELSE IF t = n THEN FAdd(c, face_value) ELSE c,
                       IF weighted THEN FInt(t * (t + 1)) ELSE One)))

CouponPayment(c) == FDiv(FMul(c.face_value, c.coupon_rate), FInt(c.frequency))
Flows(c, weighted, discounted) ==
    ScheduleValue(1, Periods(c), CouponPayment(c), c.face_value, PeriodicRate(c),
                  weighted, discounted, FZero)
\* the convexity that belongs to a weighted sum of present values
ConvexityOf(c, sum) ==
    FDiv(sum, FMul(FMul(c.price, FPow(FAdd(One, PeriodicRate(c)), 2)),
                   FInt(c.frequency * c.frequency)))

\* price, schedule of the duration and convexity all with every cash flow
\* undiscounted, or all with every cash flow discounted
AllUndiscounted(c) ==
    /\ Exact(c.price, Flows(c, FALSE, FALSE))
    /\ Exact(c.total_pv, Flows(c, FALSE, FALSE))
    /\ Exact(c.C, ConvexityOf(c, Flows(c, TRUE, FALSE)))
AllDiscounted(c) ==
    /\ Exact(c.price, Flows(c, FALSE, TRUE))
    /\ Exact(c.total_pv, Flows(c, FALSE, TRUE))
    /\ Exact(c.C, ConvexityOf(c, Flows(c, TRUE, TRUE)))

Priced(c) == Positive(c.years) /\ IsNum(c.price) /\ IsNum(c.total_pv) /\ IsNum(c.C)

\* C19: within each module, calculate_bond_price, calculate_duration and
\* calculate_convexity take the undiscounted branch at the same periodic
\* rates r, |r| = 1e-12 included, and in that branch every cash flow, the
\* coupons and the face value, is undiscounted in all three: at every r
\* the three are all undiscounted or all discounted
C19_SameBranch ==
    (page = "calculator" /\ Priced(calc))
        => AllUndiscounted(calc) \/ AllDiscounted(calc)

\* the same in lec02 alone
C19_SameBranch_lec02 ==
    (page = "calculator" /\ calc.mod = "lec02" /\ Priced(calc))
        => AllUndiscounted(calc) \/ AllDiscounted(calc)

\* lec02 at a periodic rate of exactly 1e-12 discounts, and below it does not
C19_Threshold_lec02 ==
    (page = "calculator" /\ calc.mod = "lec02" /\ Priced(calc)
        /\ ~FIsZero(calc.ytm))
        => IF InBand(PeriodicRate(calc))
           THEN AllUndiscounted(calc) ELSE AllDiscounted(calc)

\* C20: when the annual yield is exactly 0 and years > 0, calculate_bond_price
\* returns coupon-per-period x N + face, the undiscounted sum of all cash
\* flows, where N = max(round(years x frequency), 1), and no division by
\* zero occurs
C20_ZeroYieldPrice ==
    (page = "calculator" /\ FIsZero(calc.ytm) /\ Positive(calc.years))
        => /\ IsNum(calc.price)
           /\ calc.price = FAdd(FMul(CouponPayment(calc),
                                     FInt(Max(PyRound(FMul(calc.years,
                                                           FInt(calc.frequency))), 1))),
                                calc.face_value)

\* a bond with coupons over several periods at a yield of 0, priced above
\* its face value
C20_Witness ==
    /\ page = "calculator" /\ FIsZero(calc.ytm) /\ Positive(calc.years)
    /\ Positive(calc.coupon_rate) /\ Periods(calc) > 1
    /\ calc.price = Flows(calc, FALSE, FALSE)
    /\ FLt(calc.face_value, calc.price)

\* the projection of the immunization page is shown
PerformanceShown == page = "immunization" /\ imm.shown = "strategy, performance"

\* the number of coupon dates t / 2, t >= 1, on or before the liability date
CouponsToHorizon == Max(QFloor(FMul(imm.liability_years, FInt(2))[2]), 0)
\* the coupons of a bond of the given years, as calculate_bond_price counts them
CouponsOf(years) == IF FLe(years, FZero) THEN 0 ELSE lec02_safe_periods(years, 2)

\* the coupons of the dates t / 2 from t on that are on or before the
\* liability date, each grown at the shocked periodic rate until that date
RECURSIVE CouponsGrown(_, _)
CouponsGrown(t, sum) ==
    IF t > CouponsToHorizon THEN sum
    ELSE CouponsGrown(t + 1,
             FAdd(sum,
                  FMul(imm.coupon_payment,
                       FPowFloat(FAdd(One, FDiv(imm.new_ytm, FInt(2))),
                                 FSub(FMul(imm.liability_years, FInt(2)), FInt(t))))))

\* C21: the reinvested-coupon future value of one bond includes exactly the
\* coupons paid on or before the liability date, each compounded at the
\* shocked periodic rate for the periods remaining to that date; no coupon
\* paid after it is added, and no coupon is counted both there and in the
\* market value of the remaining bond
C21_CouponsToHorizon ==
    (PerformanceShown /\ IsNum(imm.fv_coupons_one))
        => /\ imm.n_periods = CouponsToHorizon
           /\ imm.fv_coupons_one = CouponsGrown(1, FZero)
           /\ imm.n_periods + CouponsOf(imm.remaining_time)
                <= CouponsOf(imm.optimal_maturity)

\* the coupons added and their growth for a liability date that is a coupon
\* date of the bond
C21_CouponsToCouponDate ==
    (PerformanceShown /\ IsNum(imm.fv_coupons_one)
        /\ IsWhole(FMul(imm.liability_years, FInt(2)))
        /\ Positive(imm.liability_years))
        => /\ imm.n_periods = CouponsToHorizon
           /\ imm.fv_coupons_one = CouponsGrown(1, FZero)

\* the same liability dates and a bond maturing on a coupon date: every
\* coupon of the bond is counted once
C21_CouponsOnce ==
    (PerformanceShown /\ IsNum(imm.fv_coupons_one)
        /\ IsWhole(FMul(imm.liability_years, FInt(2)))
        /\ Positive(imm.liability_years)
        /\ IsWhole(FMul(imm.optimal_maturity, FInt(2))))
        => imm.n_periods + CouponsOf(imm.remaining_time)
                = CouponsOf(imm.optimal_maturity)

ConvexityShown == page = "convexity"
ShockedYield == FAdd(conv.ytm_conv, conv.test_yield_change)
RepricedAtShock ==
    calculate_bond_price("lec02", conv.fv_conv, conv.cr_conv, conv.mat_conv,
                         ShockedYield, 2)

\* C22 (calculators): the calculators of both lectures reprice the bond at
\* exactly yield + dy, for the dy that both estimators receive
C22_CalculatorsRepriceAtShock ==
    page = "calculator" =>
        /\ calc.new_price = calculate_bond_price(calc.mod, calc.face_value,
               calc.coupon_rate, calc.years, FAdd(calc.ytm, calc.dy), calc.frequency)
        /\ calc.est_d = price_change_duration(calc.mod, calc.Dm, calc.dy)
        /\ calc.est_dc = price_change_duration_convexity(calc.mod, calc.Dm, calc.C, calc.dy)

\* C22: wherever an actual price change is compared with the duration and
\* the duration + convexity estimate, the actual change comes from repricing
\* at exactly yield + dy for the dy passed to both estimators, for every
\* value of dy: on the calculators and on the convexity page
C22_RepricedAtShock ==
    /\ C22_CalculatorsRepriceAtShock
    /\ ConvexityShown =>
        /\ conv.new_ytm_test = ShockedYield
        /\ conv.actual_new_price = RepricedAtShock
        /\ conv.duration_pct_change =
               FMul(price_change_duration("lec02", conv.mod_dur_conv,
                                          conv.test_yield_change), FInt(100))
        /\ conv.convexity_pct_change =
               FMul(price_change_duration_convexity("lec02", conv.mod_dur_conv,
                        conv.convexity_val, conv.test_yield_change), FInt(100))

\* C22 (convexity page, yield above the floor): the convexity page reprices
\* at yield + dy when that is at least 0.0001
C22_RepricedAboveFloor ==
    (ConvexityShown /\ FLe(R(1, 10000), ShockedYield)) =>
        /\ conv.new_ytm_test = ShockedYield
        /\ conv.actual_new_price = RepricedAtShock

\* what a function returns for the arguments of the call in a session that
\* was just started
FreshResult ==
    CASE call.f = "calculate_bond_price" ->
             calculate_bond_price(call.mod, call.args[1], call.args[2], call.args[3],
                                  call.args[4], call.args[5])
      [] call.f = "calculate_duration" ->
             calculate_duration(call.mod, call.args[1], call.args[2], call.args[3],
                                call.args[4], call.args[5])
      [] call.f = "calculate_modified_duration" ->
             calculate_modified_duration(call.mod, call.args[1], call.args[2], call.args[3])
      [] call.f = "calculate_convexity" ->
             calculate_convexity(call.mod, call.args[1], call.args[2], call.args[3],
                                 call.args[4], call.args[5])
      [] call.f = "price_change_duration" ->
             price_change_duration(call.mod, call.args[1], call.args[2])
      [] call.f = "price_change_duration_convexity" ->
             price_change_duration_convexity(call.mod, call.args[1], call.args[2],
                                             call.args[3])

RoundedPeriods(c) == Max(PyRound(FMul(c.years, FInt(c.frequency))), 1)
\* the sum over the schedule of n periods that pays the coupon in every
\* period and the face value with the coupon of period n
ScheduleOf(c, n, weighted, discounted) ==
    ScheduleValue(1, n, CouponPayment(c), c.face_value, PeriodicRate(c),
                  weighted, discounted, FZero)
\* the price of lec01 within 1e-12 of a zero rate: the coupons added up and
\* the face value discounted over n periods
CouponsPlusDiscountedFace(c, n) ==
    FAdd(FMul(CouponPayment(c), FInt(n)),
         FDiv(c.face_value, FPow(FAdd(One, PeriodicRate(c)), n)))
OneOf(v, a, b) == Exact(v, a) \/ Exact(v, b)

\* C24: for years > 0 the price, the schedule of calculate_duration and the
\* convexity all belong to the schedule of N = max(round(years x frequency),
\* 1) periods whose period N pays coupon + face and whose earlier periods
\* pay the coupon only (each discounted or, near a zero rate, undiscounted)
C24_SameSchedule ==
    (page = "calculator" /\ Priced(calc)) =>
        /\ \/ OneOf(calc.price, ScheduleOf(calc, RoundedPeriods(calc), FALSE, TRUE),
                    ScheduleOf(calc, RoundedPeriods(calc), FALSE, FALSE))
           \/ Exact(calc.price, CouponsPlusDiscountedFace(calc, RoundedPeriods(calc)))
        /\ OneOf(calc.total_pv, ScheduleOf(calc, RoundedPeriods(calc), FALSE, TRUE),
                 ScheduleOf(calc, RoundedPeriods(calc), FALSE, FALSE))
        /\ OneOf(calc.C,
                 ConvexityOf(calc, ScheduleOf(calc, RoundedPeriods(calc), TRUE, TRUE)),
                 ConvexityOf(calc, ScheduleOf(calc, RoundedPeriods(calc), TRUE, FALSE)))

\* a coupon bond of 0.75 years paying twice a year: 1.5 periods round to 2
C24_Witness ==
    /\ page = "calculator" /\ Priced(calc)
    /\ calc.years = R(3, 4) /\ calc.frequency = 2 /\ RoundedPeriods(calc) = 2
    /\ Positive(calc.coupon_rate) /\ calc.ytm = R(8, 100)
    /\ Exact(calc.total_pv, calc.price)
    /\ Exact(calc.price, ScheduleOf(calc, 2, FALSE, TRUE))

\* the values of the four functions in lec02 for the arguments of the run
SameInLec02(c) ==
    /\ c.price = calculate_bond_price("lec02", c.face_value, c.coupon_rate, c.years,
                                      c.ytm, c.frequency)
    /\ c.D = calculate_duration("lec02", c.face_value, c.coupon_rate, c.years,
                                c.ytm, c.frequency)
    /\ c.Dm = calculate_modified_duration("lec02", c.D, c.ytm, c.frequency)
    /\ c.C = calculate_convexity("lec02", c.face_value, c.coupon_rate, c.years,
                                 c.ytm, c.frequency)

\* C25: calculate_bond_price, calculate_duration, calculate_modified_duration
\* and calculate_convexity of lec01 return what those of lec02 return for
\* the same arguments, for every input, years <= 0 and periodic rates of 0
\* and -1 included
C25_SameInBothModules ==
    (page = "calculator" /\ calc.mod = "lec01") => SameInLec02(calc)

\* C25 (ordinary inputs): the same for years > 0 and a periodic rate that is
\* not -1 and is 0 or more than 1e-12 away from 0
C25_SameForOrdinaryInputs ==
    (page = "calculator" /\ calc.mod = "lec01" /\ Positive(calc.years)
        /\ ~FIsZero(FAdd(One, PeriodicRate(calc)))
        /\ (FIsZero(calc.ytm) \/ FLt(EPS, FAbs(PeriodicRate(calc)))))
        => SameInLec02(calc)

\* C25 (matured bond): at years <= 0 the prices agree, and the duration of
\* lec01 is that of a one-period schedule while lec02 returns 0
C25_MaturedBond ==
    (page = "calculator" /\ calc.mod = "lec01" /\ ~Positive(calc.years)
        /\ IsNum(calc.D))
        => /\ calc.price = calculate_bond_price("lec02", calc.face_value,
                               calc.coupon_rate, calc.years, calc.ytm, calc.frequency)
           /\ calc.D = R(1, calc.frequency)
           /\ FIsZero(calculate_duration("lec02", calc.face_value, calc.coupon_rate,
                                         calc.years, calc.ytm, calc.frequency))

Submitted == Cardinality(session.submitted)

\* C26: on each quiz page, after any sequence of answer selections, Submit
\* clicks and Reset clicks, 0 <= score <= number of submitted questions <= 5,
\* and the percentage score / submitted is computed only when at least one
\* question has been submitted
C26_ScoreWithinSubmitted ==
    /\ 0 <= session.score /\ session.score <= Submitted /\ Submitted <= 5
    /\ session.submitted \subseteq Questions
    /\ page = "quiz" =>
          IF Submitted = 0 THEN score_pct(session) = NoValue
          ELSE /\ score_pct(session) = FMul(R(session.score, Submitted), FInt(100))
               /\ FLe(FZero, score_pct(session))
               /\ FLe(score_pct(session), FInt(100))

\* all five questions submitted, three of them right, and a sixth click
C26_Witness ==
    /\ page = "quiz" /\ Submitted = 5 /\ session.score = 3
    /\ quiz.button \in Questions /\ quiz.shown = "none"
    /\ score_pct(session) = FInt(60)

\* one more point for a right answer
Point(qkey, selected) ==
    IF selected = CorrectChoice(session.app, qkey) THEN 1 ELSE 0

\* C27: a question is scored at most once between resets: Submit on a
\* question that was submitted leaves the score and the submitted set as
\* they are, and the first Submit of a question adds it to the set and adds
\* a point exactly for a right answer, so that the score is the number of
\* questions whose first answer since the last reset was right
C27_ScoredOnce ==
    [][IF quiz'.button \in Questions
       THEN IF quiz'.button \in session.submitted
            THEN session' = session /\ quiz'.shown = "none"
            ELSE /\ session'.submitted = session.submitted \cup {quiz'.button}
                 /\ session'.score = session.score + Point(quiz'.button, quiz'.selected)
       ELSE quiz'.button = "reset" \/ session'.score = session.score]_vars

\* a question answered wrongly and submitted, then submitted again with the
\* right answer: no point and no feedback
C27_Witness ==
    /\ page = "quiz" /\ quiz.button \in session.submitted
    /\ quiz.selected = CorrectChoice(session.app, quiz.button)
    /\ quiz.shown = "none"
    /\ session.submitted = {quiz.button} /\ session.score = 0

\* question qkey can be submitted with the right answer and gains the point
CanScore(qkey) ==
    ENABLED (/\ Submit
             /\ quiz'.button = qkey /\ quiz'.shown = "Correct"
             /\ session'.submitted = session.submitted \cup {qkey}
             /\ session'.score = session.score + 1)

\* C28: from any quiz state Reset Quiz sets the score to 0 and the submitted
\* set to empty, after which every question can be submitted and scored
\* again, once: a further Submit of it changes nothing
C28_ResetRestarts ==
    /\ []((page = "quiz" /\ quiz.button = "reset") =>
              /\ session.score = 0 /\ session.submitted = {}
              /\ score_pct(session) = NoValue
              /\ \A qkey \in Questions : CanScore(qkey))
    /\ [][/\ quiz'.button = "reset" =>
                 session'.score = 0 /\ session'.submitted = {}
          /\ quiz'.button \in session.submitted => session' = session]_vars

\* Reset Quiz clicked in a quiz of which questions had been submitted: the
\* run after it shows any of them as open again
C28_Witness ==
    /\ page = "quiz" /\ quiz.button = "reset"
    /\ session.score = 0 /\ session.submitted = {}
    /\ \A qkey \in Questions : CanScore(qkey)

\* a run of the duration calculator of lec02 that reaches the error lines
ErrorsShown == page = "calculator" /\ calc.mod = "lec02" /\ calc.raised = NoValue
NearZero(v) == FLt(FAbs(v), EPS)
\* the relative error in percent of an estimate, as stated
ErrorAsStated(estimate, actual, error) ==
    IF NearZero(actual) /\ NearZero(estimate) THEN error = FZero
    ELSE IF NearZero(actual) /\ FLe(EPS, FAbs(estimate)) THEN IsInf(error)
    ELSE error = FMul(FDiv(FAbs(FSub(estimate, actual)), FAbs(actual)), FInt(100))
ImprovementAsStated(c) ==
    /\ c.improvement_text = "n/a (actual change ~ 0)"
           <=> (IsInf(c.duration_error) \/ IsInf(c.convexity_error))
    /\ IF c.improvement_text = "n/a (actual change ~ 0)"
       THEN c.improvement_val = FZero
       ELSE c.improvement_val = FSub(c.duration_error, c.convexity_error)

\* the relative error in percent of an estimate, with the estimates and
\* actual changes that are NaN
ErrorWithNaN(estimate, actual, error) ==
    /\ (NearZero(actual) /\ NearZero(estimate)) => error = FZero
    /\ (NearZero(actual) /\ (FLe(EPS, FAbs(estimate)) \/ IsNaN(estimate)))
           => IsInf(error)
    /\ IsNaN(actual) => IsNaN(error)
    /\ (IsNum(actual) /\ ~NearZero(actual))
           => error = FMul(FDiv(FAbs(FSub(estimate, actual)), FAbs(actual)), FInt(100))

C29_RelativeError_PositiveYears ==
    (ErrorsShown /\ Positive(calc.years)) =>
        /\ ErrorAsStated(calc.est_d, calc.actual, calc.duration_error)
        /\ ErrorAsStated(calc.est_dc, calc.actual, calc.convexity_error)
        /\ ImprovementAsStated(calc)

\* a NaN estimate next to an actual change of 0: an infinite error
C29_NaNEstimate ==
    /\ ErrorsShown /\ IsNaN(calc.est_d) /\ FIsZero(calc.actual)
    /\ IsInf(calc.duration_error)

C29_Witness_Zero ==
    /\ ErrorsShown /\ Positive(calc.years)
    /\ NearZero(calc.actual) /\ NearZero(calc.est_d) /\ NearZero(calc.est_dc)
    /\ calc.duration_error = FZero /\ calc.convexity_error = FZero
    /\ calc.improvement_text = "percentage points"
    /\ calc.improvement_val = FZero

====
